---- MODULE Spec2Model ----
(***************************************************************************)
(* Verification model of the beartype check-code generator:                *)
(*   - callable_cached       (beartype/_util/cache/utilcachecall.py)       *)
(*   - the scope registry    (beartype/_check/code/_codescope.py)          *)
(*   - pep_code_check_hint   (beartype/_decor/_code/_pep/_pephint.py)      *)
(* Several specifications share the module.  Each one drives one component *)
(* (SpecCache, SpecScope, SpecCompile and their variants) and leaves the   *)
(* variables of the other components at their initial value.               *)
(***************************************************************************)
EXTENDS Integers, Sequences, FiniteSets, TLC

VARIABLES
    params_flat_to_return_value, \* callable_cached: flattened params -> returned object
    params_flat_to_exception,    \* callable_cached: flattened params -> raised exception
    next_obj,                    \* identity of the next object the interpreter allocates
    cc_log,                      \* history of the calls made to the memoized closure
    func_scope,                  \* the local registry: name -> class, tuple or beartypistry
    bear_typistry,               \* the process-wide beartypistry: name -> tuple of classes
    forwardrefs_class_basename,  \* None or the set of relative forward reference names
    hash_slot,                   \* class -> hash table slot its address falls in
    sc_first,                    \* argument -> name the registry returned for it first
    sc_last,                     \* the last registry call and its outcome
    sc_calls,                    \* number of registry calls made so far
    data,                        \* the BeartypeData objects: identity -> fields
    frame,                       \* the activation of pep_code_check_hint, if any
    pep_log,                     \* history of the calls made to pep_code_check_hint
    threads,                     \* the concurrent callers: thread -> position and locals
    decorated                    \* history of the calls made to callable_cached()

cacheVars == <<params_flat_to_return_value, params_flat_to_exception, cc_log>>

scopeVars == <<func_scope, bear_typistry, forwardrefs_class_basename, hash_slot,
               sc_first, sc_last, sc_calls>>

compileVars == <<data, frame, pep_log>>

vars == <<params_flat_to_return_value, params_flat_to_exception, next_obj, cc_log,
          func_scope, bear_typistry, forwardrefs_class_basename, hash_slot,
          sc_first, sc_last, sc_calls, data, frame, pep_log, threads, decorated>>

----------------------------------------------------------------------------
(* Python objects.  Every object is a record of one shape: a type tag, an  *)
(* identity (the value for an int or a str, the address for a class or an  *)
(* instance) and the items of a container.                                 *)

PyObj(tag, id, items) == [tag |-> tag, id |-> id, items |-> items]

PyInt(n)      == PyObj("int", n, <<>>)
PyStr(n)      == PyObj("str", n, <<>>)
PyTuple(its)  == PyObj("tuple", 0, its)
PyNone        == PyObj("None", 0, <<>>)

\* Python's == on the objects of the model.  Tuples and subscripted typing
\* containers compare item by item whatever their identity; frozensets and
\* typing.Union objects compare as the sets of their members; every other
\* object compares by identity (an int or a str by value, which the id holds).
RECURSIVE PyEq(_, _)
PyEq(a, b) ==
    IF a.tag # b.tag THEN FALSE
    ELSE IF a.tag \in {"Union", "frozenset"}
    THEN /\ \A i \in DOMAIN a.items : \E j \in DOMAIN b.items : PyEq(a.items[i], b.items[j])
         /\ \A j \in DOMAIN b.items : \E i \in DOMAIN a.items : PyEq(a.items[i], b.items[j])
    ELSE /\ (a.tag \notin {"tuple", "List", "Dict"} => a.id = b.id)
         /\ Len(a.items) = Len(b.items)
         /\ \A i \in DOMAIN a.items : PyEq(a.items[i], b.items[i])

----------------------------------------------------------------------------
(* callable_cached                                                         *)

\* The object() inside the 1-tuple _SENTINEL_KWARGS_KEYS.
SENTINEL_KWARGS_KEYS == <<PyObj("object", 1, <<>>)>>

\* The object() inside the 1-tuple _SENTINEL_KWARGS_VALUES.
SENTINEL_KWARGS_VALUES == <<PyObj("object", 2, <<>>)>>

\* beartype._util.utilobj.SENTINEL, the "no such key" default of dict.get().
SENTINEL == PyObj("object", 3, <<>>)

KwargsKeys(kwargs)   == [i \in DOMAIN kwargs |-> kwargs[i].name]
KwargsValues(kwargs) == [i \in DOMAIN kwargs |-> kwargs[i].value]

\* A variant of the flattening that keeps a lone positional argument wrapped.
ParamsFlatAlwaysTuple(args, kwargs) ==
    IF Len(kwargs) > 0
    THEN PyTuple(args \o SENTINEL_KWARGS_KEYS \o KwargsKeys(kwargs)
                      \o SENTINEL_KWARGS_VALUES \o KwargsValues(kwargs))
    ELSE PyTuple(args)

\* A variant of the flattening that drops the two sentinels.
ParamsFlatNoSentinel(args, kwargs) ==
    IF Len(kwargs) > 0
    THEN PyTuple(args \o KwargsKeys(kwargs) \o KwargsValues(kwargs))
    ELSE IF Len(args) = 1 THEN args[1]
    ELSE PyTuple(args)

\* params_flat of _callable_cached(*args, **kwargs).
ParamsFlat(args, kwargs) ==
    IF Len(kwargs) > 0
    THEN PyTuple(args \o SENTINEL_KWARGS_KEYS \o KwargsKeys(kwargs)
                      \o SENTINEL_KWARGS_VALUES \o KwargsValues(kwargs))
    ELSE IF Len(args) = 1 THEN args[1]
    ELSE PyTuple(args)

\* A dict.get() that never finds the key.
DictGetMiss(dict, key, default) == default

\* A dict.get() that takes a stored None for a missing key.
DictGetNotNone(dict, key, default) ==
    IF \E k \in DOMAIN dict : PyEq(k, key) /\ dict[k] # PyNone
    THEN dict[CHOOSE k \in DOMAIN dict : PyEq(k, key)]
    ELSE default

\* dict.get(key, default): the value stored under a key equal to key.
DictGet(dict, key, default) ==
    IF \E k \in DOMAIN dict : PyEq(k, key)
    THEN dict[CHOOSE k \in DOMAIN dict : PyEq(k, key)]
    ELSE default

\* dict[key] = value: an equal key keeps its slot, a new key gets one.
DictSet(dict, key, value) ==
    IF \E k \in DOMAIN dict : PyEq(k, key)
    THEN [dict EXCEPT ![CHOOSE k \in DOMAIN dict : PyEq(k, key)] = value]
    ELSE [k \in DOMAIN dict \cup {key} |-> IF k = key THEN value ELSE dict[k]]

EmptyDict == [k \in {} |-> SENTINEL]

\* Largest number of calls made to one memoized closure.
MaxCalls == 3

\* Objects passed as arguments: an int and a 2-tuple of ints.
ArgVals == {PyInt(1), PyTuple(<<PyInt(1), PyInt(1)>>)}

\* Names of the two parameters of the decorated callable, muh_func(a=0, b=0).
ParamNames == <<PyStr(1), PyStr(2)>>

ParamDefault == PyInt(0)

PositionalArgs == {<<>>} \cup {<<x>> : x \in ArgVals} \cup {<<x, y>> : x, y \in ArgVals}

Kwarg(n, v) == [name |-> ParamNames[n], value |-> v]

KeywordArgs ==
    {<<>>} \cup {<<Kwarg(n, v)>> : n \in {1, 2}, v \in ArgVals}
           \cup {<<Kwarg(n, v), Kwarg(3 - n, w)>> : n \in {1, 2}, v \in ArgVals, w \in ArgVals}

\* The calls the signature of the decorated callable accepts: no parameter is
\* passed both positionally and by keyword.
Calls ==
    {c \in [args : PositionalArgs, kwargs : KeywordArgs] :
        \A i \in DOMAIN c.kwargs : \A n \in 1..Len(c.args) : c.kwargs[i].name # ParamNames[n]}

\* The calls passing positional arguments only.
PositionalCalls == {c \in Calls : c.kwargs = <<>>}

\* The value the call binds to the n-th parameter of the decorated callable.
BoundParam(call, n) ==
    IF n <= Len(call.args) THEN call.args[n]
    ELSE IF \E i \in DOMAIN call.kwargs : call.kwargs[i].name = ParamNames[n]
    THEN call.kwargs[CHOOSE i \in DOMAIN call.kwargs : call.kwargs[i].name = ParamNames[n]].value
    ELSE ParamDefault

\* func(*args, **kwargs) of the decorated callable: it raises a new exception
\* when b is a tuple, returns None when a is a tuple and returns a new object
\* otherwise.
Func(call, fresh) ==
    IF BoundParam(call, 2).tag = "tuple"
    THEN [kind |-> "raise", obj |-> PyObj("Exception", fresh, <<>>)]
    ELSE IF BoundParam(call, 1).tag = "tuple"
    THEN [kind |-> "return", obj |-> PyNone]
    ELSE [kind |-> "return", obj |-> PyObj("object", fresh, <<>>)]

\* A hash() that only looks at the type of the object, not at its items.
IsHashableShallow(obj) == obj.tag \notin {"list", "dict", "set"}

\* hash(obj) returns rather than raises TypeError: a list, a dict and a set
\* are unhashable and a tuple is hashable when all its items are.
RECURSIVE IsHashable(_)
IsHashable(obj) ==
    IF obj.tag \in {"list", "dict", "set"} THEN FALSE
    ELSE IF obj.tag = "tuple" THEN \A i \in DOMAIN obj.items : IsHashable(obj.items[i])
    ELSE TRUE

\* Unhashable objects passed as arguments: a list and a tuple holding a list.
UnhashableArgVals == {PyObj("list", 0, <<PyInt(1)>>), PyTuple(<<PyInt(1), PyObj("list", 0, <<>>)>>)}

\* Calls passing an unhashable object alone, after a hashable one and by
\* keyword.
UnhashableCalls ==
    {[args |-> <<x>>, kwargs |-> <<>>] : x \in UnhashableArgVals}
        \cup {[args |-> <<PyInt(1), x>>, kwargs |-> <<>>] : x \in UnhashableArgVals}
        \cup {[args |-> <<>>, kwargs |-> <<Kwarg(1, x)>>] : x \in UnhashableArgVals}

LogEntry(call, key, kind, obj, invoked) ==
    [call |-> call, key |-> key, kind |-> kind, obj |-> obj, invoked |-> invoked]

\* _callable_cached(*args, **kwargs), the memoized closure.
CallableCachedCall(call) ==
    /\ Len(cc_log) < MaxCalls
    /\ LET params_flat  == ParamsFlat(call.args, call.kwargs)
           exception    == DictGet(params_flat_to_exception, params_flat, SENTINEL)
           return_value == DictGet(params_flat_to_return_value, params_flat, SENTINEL)
           outcome      == Func(call, next_obj)
       IN  IF ~IsHashable(params_flat)
           THEN /\ cc_log' = Append(cc_log,
                        LogEntry(call, params_flat, "raise",
                                 PyObj("TypeError", next_obj, <<>>), FALSE))
                /\ next_obj' = next_obj + 1
                /\ UNCHANGED <<params_flat_to_return_value, params_flat_to_exception>>
           ELSE IF exception # SENTINEL
           THEN /\ cc_log' = Append(cc_log,
                        LogEntry(call, params_flat, "raise", exception, FALSE))
                /\ UNCHANGED <<params_flat_to_return_value, params_flat_to_exception, next_obj>>
           ELSE IF return_value # SENTINEL
           THEN /\ cc_log' = Append(cc_log,
                        LogEntry(call, params_flat, "return", return_value, FALSE))
                /\ UNCHANGED <<params_flat_to_return_value, params_flat_to_exception, next_obj>>
           ELSE /\ next_obj' = next_obj + 1
                /\ cc_log' = Append(cc_log,
                        LogEntry(call, params_flat, outcome.kind, outcome.obj, TRUE))
                /\ IF outcome.kind = "raise"
                   THEN /\ params_flat_to_exception' =
                              DictSet(params_flat_to_exception, params_flat, outcome.obj)
                        /\ UNCHANGED params_flat_to_return_value
                   ELSE /\ params_flat_to_return_value' =
                              DictSet(params_flat_to_return_value, params_flat, outcome.obj)
                        /\ UNCHANGED params_flat_to_exception

FirstObj == 10

\* Largest number of parameters of a callable passed to callable_cached().
MaxParams == 3

\* Largest number of calls made to callable_cached().
MaxDecorations == 2

\* The values of inspect.Parameter.kind.
ParamKinds ==
    {"POSITIONAL_ONLY", "POSITIONAL_OR_KEYWORD", "VAR_POSITIONAL", "KEYWORD_ONLY", "VAR_KEYWORD"}

\* The place a kind of parameter takes in a signature.
KindRank(kind) ==
    CASE kind = "POSITIONAL_ONLY" -> 0
      [] kind = "POSITIONAL_OR_KEYWORD" -> 1
      [] kind = "VAR_POSITIONAL" -> 2
      [] kind = "KEYWORD_ONLY" -> 3
      [] kind = "VAR_KEYWORD" -> 4

\* The signatures a def statement accepts: the kinds in their order, *args
\* and **kwargs at most once each.
Signatures ==
    {sig \in UNION {[1..n -> ParamKinds] : n \in 0..MaxParams} :
        /\ \A i, j \in DOMAIN sig : i < j => KindRank(sig[i]) <= KindRank(sig[j])
        /\ \A i, j \in DOMAIN sig :
              (i # j /\ sig[i] = sig[j]) => sig[i] \notin {"VAR_POSITIONAL", "VAR_KEYWORD"}}

\* A set of unsupported kinds that lacks VAR_KEYWORD.
PARAM_KINDS_UNSUPPORTED_POSITIONAL == {"VAR_POSITIONAL"}

\* _PARAM_KINDS_UNSUPPORTED
PARAM_KINDS_UNSUPPORTED == {"VAR_KEYWORD", "VAR_POSITIONAL"}

\* callable_cached(func) up to its return: the loop over the parameters
\* raises at the first unsupported kind; past the loop the two dictionaries
\* and the closure are created and the closure is returned.
CallableCached(func_sig, fresh) ==
    IF \E i \in DOMAIN func_sig : func_sig[i] \in PARAM_KINDS_UNSUPPORTED
    THEN [sig |-> func_sig, kind |-> "raise",
          obj |-> PyObj("_BeartypeCallableCachedException", fresh, <<>>),
          param |-> CHOOSE i \in DOMAIN func_sig :
                        /\ func_sig[i] \in PARAM_KINDS_UNSUPPORTED
                        /\ \A j \in 1..(i - 1) : func_sig[j] \notin PARAM_KINDS_UNSUPPORTED,
          dicts |-> <<>>]
    ELSE [sig |-> func_sig, kind |-> "return",
          obj |-> PyObj("function", fresh, <<>>),
          param |-> 0,
          dicts |-> <<EmptyDict, EmptyDict>>]

\* A call callable_cached(func) on a callable of the given signature.
Decorate(func_sig) ==
    /\ Len(decorated) < MaxDecorations
    /\ decorated' = Append(decorated, CallableCached(func_sig, next_obj))
    /\ next_obj' = next_obj + 1
    /\ UNCHANGED <<cacheVars, scopeVars, compileVars, threads>>

\* The two dictionaries callable_cached() creates for the closure.
InitCacheVars ==
    /\ params_flat_to_return_value = EmptyDict
    /\ params_flat_to_exception = EmptyDict
    /\ cc_log = <<>>
    /\ decorated = <<>>

----------------------------------------------------------------------------
(* The scope registry, beartype/_check/code/_codescope.py                  *)

PyType(n) == PyObj("type", n, <<>>)

TypeInt  == PyType(1)               \* builtins.int
TypeList == PyType(2)               \* builtins.list
TypeStr  == PyType(6)               \* builtins.str
TypeA    == PyType(3)               \* WhenOwlsCallTheBreathlessMoon
TypeB    == PyType(4)               \* TheShadowsOfTheTreesAppear
TypeNonIsinstanceable == PyType(5)  \* NonIsinstanceableClass
TypeDict == PyType(7)               \* builtins.dict
TypeObject == PyType(8)             \* builtins.object

\* An object that is neither a class, a collection nor a forward reference.
NotAType == PyObj("float", 0, <<>>)

\* The beartypistry singleton, as the object a scope entry refers to.
BearTypistryRef == PyObj("Beartypistry", 0, <<>>)

\* ARG_NAME_TYPISTRY, the name "__beartypistry".
ARG_NAME_TYPISTRY == PyObj("str_typistry", 0, <<>>)

\* A classname: a basename, dotted with a module name when module > 0.
ClassName(module, base) ==
    PyObj("str", base, IF module = 0 THEN <<>> ELSE <<PyStr(module)>>)

Returned(value, scope, typistry) ==
    [kind |-> "return", value |-> value, func_scope |-> scope,
     bear_typistry |-> typistry, allocated |-> FALSE]

\* The default of the parameter exception_prefix of the registry functions:
\* the text their exception messages start with when the caller passes none.
EXCEPTION_PREFIX_DEFAULT == PyObj("Globally or locally scoped ", 0, <<>>)

Raised(exception, scope, typistry) ==
    [kind |-> "raise", value |-> PyObj(exception, 0, <<EXCEPTION_PREFIX_DEFAULT>>),
     func_scope |-> scope,
     bear_typistry |-> typistry, allocated |-> FALSE]

\* is_type_builtin(cls)
IsTypeBuiltin(cls) == cls \in {TypeInt, TypeList, TypeStr, TypeDict, TypeObject}

\* die_unless_type_isinstanceable(cls) and die_unless_hint_nonpep_type(hint)
\* return rather than raise.
IsTypeIsinstanceable(obj) == obj.tag = "type" /\ obj # TypeNonIsinstanceable

\* get_object_type_basename(cls)
GetObjectTypeBasename(cls) == PyObj("str_basename", cls.id, <<>>)

\* The name add_func_scope_attr() derives from id(attr).
AttrName(attr) == PyObj("str_attr", attr.id, <<>>)

\* add_func_scope_attr(attr, func_scope)
AddFuncScopeAttr(attr, scope, typistry) ==
    LET attr_name == AttrName(attr)
        attr_prev == DictGet(scope, attr_name, SENTINEL)
    IN  IF attr_prev = SENTINEL
        THEN Returned(attr_name, DictSet(scope, attr_name, attr), typistry)
        ELSE IF attr_prev # attr
        THEN Raised("_BeartypeUtilCallableException", scope, typistry)
        ELSE Returned(attr_name, scope, typistry)

\* An add_func_scope_type() that names the class after the size of the scope.
AddFuncScopeTypeCounterName(cls, scope, typistry) ==
    IF ~IsTypeIsinstanceable(cls)
    THEN Raised("BeartypeDecorHintPep3119Exception", scope, typistry)
    ELSE IF IsTypeBuiltin(cls)
    THEN Returned(GetObjectTypeBasename(cls), scope, typistry)
    ELSE LET name == PyObj("str_attr", Cardinality(DOMAIN scope), <<>>)
         IN  Returned(name, DictSet(scope, name, cls), typistry)

\* An add_func_scope_type() without the shortcut for builtin classes.
AddFuncScopeTypeNoShortcut(cls, scope, typistry) ==
    IF ~IsTypeIsinstanceable(cls)
    THEN Raised("BeartypeDecorHintPep3119Exception", scope, typistry)
    ELSE AddFuncScopeAttr(cls, scope, typistry)

\* add_func_scope_type(cls, func_scope)
AddFuncScopeType(cls, scope, typistry) ==
    IF ~IsTypeIsinstanceable(cls)
    THEN Raised("BeartypeDecorHintPep3119Exception", scope, typistry)
    ELSE IF IsTypeBuiltin(cls)
    THEN Returned(GetObjectTypeBasename(cls), scope, typistry)
    ELSE AddFuncScopeAttr(cls, scope, typistry)

Range(seq) == {seq[i] : i \in DOMAIN seq}

\* The items of a sequence without the repetitions, in order of first occurrence.
RECURSIVE Dedup(_)
Dedup(seq) ==
    IF seq = <<>> THEN <<>>
    ELSE LET front == Dedup(SubSeq(seq, 1, Len(seq) - 1))
         IN  IF seq[Len(seq)] \in Range(front) THEN front
             ELSE Append(front, seq[Len(seq)])

SlotOf(slot, cls) == IF cls \in DOMAIN slot THEN slot[cls] ELSE 0

\* The order in which a set built by inserting the items of seq is iterated:
\* by hash table slot, and by insertion order inside one slot.
SetOrder(slot, seq) ==
    LET InSlot0(cls) == SlotOf(slot, cls) = 0
        InSlot1(cls) == SlotOf(slot, cls) # 0
    IN  SelectSeq(Dedup(seq), InSlot0) \o SelectSeq(Dedup(seq), InSlot1)

\* A beartypistry key made of the address of the tuple rather than its hash.
TupleTypesNameOfAddress(types) == PyObj("str_tuple_hash", types.id, <<>>)

\* f'{TYPISTRY_HINT_NAME_TUPLE_PREFIX}{hash(types)}': the hash of a tuple is a
\* function of its items in order, kept here as those items.
TupleTypesName(types) == PyObj("str_tuple_hash", 0, types.items)

\* A coercion that trusts every tuple to be duplicate-free.
CoerceTypesTrusting(types, is_unique, slot, fresh) ==
    IF types.tag = "frozenset" THEN PyObj("tuple", fresh, types.items) ELSE types

\* A coercion that builds a tuple from the set of the items whatever
\* is_unique says.
CoerceTypesAlways(types, is_unique, slot, fresh) ==
    PyObj("tuple", fresh, SetOrder(slot, types.items))

\* The tuple add_func_scope_types() coerces a collection of two or more
\* classes into; fresh is the identity of the tuple it creates.
CoerceTypes(types, is_unique, slot, fresh) ==
    IF types.tag = "frozenset" THEN PyObj("tuple", fresh, types.items)
    ELSE IF ~is_unique THEN PyObj("tuple", fresh, SetOrder(slot, types.items))
    ELSE types

\* An add_func_scope_types() that registers the tuple it was passed under the
\* beartypistry key, without reusing the cached tuple.
AddFuncScopeTypesNoReuse(types, scope, typistry, is_unique, slot, fresh) ==
    IF types.tag \notin {"tuple", "frozenset"} \/ Len(types.items) = 0
       \/ \E i \in DOMAIN types.items : ~IsTypeIsinstanceable(types.items[i])
    THEN Raised("BeartypeDecorHintNonpepException", scope, typistry)
    ELSE IF Len(types.items) = 1
    THEN AddFuncScopeType(types.items[1], scope, typistry)
    ELSE LET name == TupleTypesName(types)
         IN  Returned(name, DictSet(scope, name, types), DictSet(typistry, name, types))

\* An add_func_scope_types() that registers a collection of one class as a
\* tuple, like the collections of two or more classes.
AddFuncScopeTypesNoDelegation(types, scope, typistry, is_unique, slot, fresh) ==
    IF types.tag \notin {"tuple", "frozenset"} \/ Len(types.items) = 0
       \/ \E i \in DOMAIN types.items : ~IsTypeIsinstanceable(types.items[i])
    THEN Raised("BeartypeDecorHintNonpepException", scope, typistry)
    ELSE LET name == TupleTypesName(types)
         IN  Returned(name, DictSet(scope, name, types), DictSet(typistry, name, types))

\* An add_func_scope_types() that caches the tuple in the beartypistry before
\* it validates the items.
AddFuncScopeTypesCacheFirst(types, scope, typistry, is_unique, slot, fresh) ==
    IF types.tag \notin {"tuple", "frozenset"} \/ Len(types.items) = 0
    THEN Raised("BeartypeDecorHintNonpepException", scope, typistry)
    ELSE IF \E i \in DOMAIN types.items : ~IsTypeIsinstanceable(types.items[i])
    THEN Raised("BeartypeDecorHintNonpepException", scope,
                DictSet(typistry, TupleTypesName(types), types))
    ELSE AddFuncScopeTypesNoReuse(types, scope, typistry, is_unique, slot, fresh)

\* add_func_scope_types(types, func_scope, is_unique); fresh is the identity
\* of the tuple the function creates when it coerces its argument.
AddFuncScopeTypes(types, scope, typistry, is_unique, slot, fresh) ==
    IF types.tag \notin {"tuple", "frozenset"}
    THEN Raised("BeartypeDecorHintNonpepException", scope, typistry)
    ELSE IF Len(types.items) = 0
    THEN Raised("BeartypeDecorHintNonpepException", scope, typistry)
    ELSE IF \E i \in DOMAIN types.items : ~IsTypeIsinstanceable(types.items[i])
    THEN Raised("BeartypeDecorHintNonpepException", scope, typistry)
    ELSE IF Len(types.items) = 1
    THEN AddFuncScopeType(types.items[1], scope, typistry)
    ELSE LET coerced == CoerceTypes(types, is_unique, slot, fresh)
             tuple_types_name == TupleTypesName(coerced)
             cached == DictGet(typistry, tuple_types_name, SENTINEL)
             typistry_new ==
                 IF cached = SENTINEL THEN DictSet(typistry, tuple_types_name, coerced)
                 ELSE typistry
             tuple_types == IF cached = SENTINEL THEN coerced ELSE cached
         IN  [AddFuncScopeAttr(tuple_types, scope, typistry_new)
                 EXCEPT !.allocated = (cached = SENTINEL /\ coerced.id = fresh)]

\* add_func_scope_type_or_types(type_or_types, func_scope)
AddFuncScopeTypeOrTypes(type_or_types, scope, typistry, slot, fresh) ==
    IF type_or_types.tag = "type"
    THEN AddFuncScopeType(type_or_types, scope, typistry)
    ELSE AddFuncScopeTypes(type_or_types, scope, typistry, FALSE, slot, fresh)

NoneSet == [is_none |-> TRUE, names |-> {}]

\* An express_func_scope_type_forwardref() that adds every classname to the
\* set of relative names, a fully-qualified one as well.
ExpressFuncScopeTypeForwardrefAddsAll(forwardref, basenames, scope) ==
    IF forwardref.tag # "str"
    THEN [kind |-> "raise",
          value |-> PyObj("BeartypeDecorHintForwardRefException", 0, <<>>),
          func_scope |-> scope, basenames |-> basenames]
    ELSE [kind |-> "return",
          value |-> IF Len(forwardref.items) > 0
                    THEN PyObj("expr_typistry_item", 0, <<forwardref>>)
                    ELSE PyObj("expr_basename_placeholder", 0, <<forwardref>>),
          func_scope |-> IF Len(forwardref.items) > 0
                         THEN DictSet(scope, ARG_NAME_TYPISTRY, BearTypistryRef)
                         ELSE scope,
          basenames |-> [is_none |-> FALSE, names |-> basenames.names \cup {forwardref}]]

\* An express_func_scope_type_forwardref() that adds the beartypistry to the
\* scope for every classname, an unqualified one as well.
ExpressFuncScopeTypeForwardrefBindsAll(forwardref, basenames, scope) ==
    IF forwardref.tag # "str"
    THEN [kind |-> "raise",
          value |-> PyObj("BeartypeDecorHintForwardRefException", 0, <<>>),
          func_scope |-> scope, basenames |-> basenames]
    ELSE [kind |-> "return",
          value |-> IF Len(forwardref.items) > 0
                    THEN PyObj("expr_typistry_item", 0, <<forwardref>>)
                    ELSE PyObj("expr_basename_placeholder", 0, <<forwardref>>),
          func_scope |-> DictSet(scope, ARG_NAME_TYPISTRY, BearTypistryRef),
          basenames |-> IF Len(forwardref.items) > 0 THEN basenames
                        ELSE [is_none |-> FALSE,
                              names |-> basenames.names \cup {forwardref}]]

\* express_func_scope_type_forwardref(forwardref, forwardrefs_class_basename,
\* func_scope): the expression, the scope and the set of relative names.
ExpressFuncScopeTypeForwardref(forwardref, basenames, scope) ==
    IF forwardref.tag # "str"
    THEN [kind |-> "raise",
          value |-> PyObj("BeartypeDecorHintForwardRefException", 0, <<>>),
          func_scope |-> scope, basenames |-> basenames]
    ELSE IF Len(forwardref.items) > 0
    THEN [kind |-> "return",
          value |-> PyObj("expr_typistry_item", 0, <<forwardref>>),
          func_scope |-> DictSet(scope, ARG_NAME_TYPISTRY, BearTypistryRef),
          basenames |-> basenames]
    ELSE [kind |-> "return",
          value |-> PyObj("expr_basename_placeholder", 0, <<forwardref>>),
          func_scope |-> scope,
          basenames |-> [is_none |-> FALSE, names |-> basenames.names \cup {forwardref}]]

\* The classes and other objects passed to add_func_scope_type().
TypeArgs == {TypeInt, TypeList, TypeA, TypeNonIsinstanceable, NotAType}

\* The tuples passed to add_func_scope_types(); (A, B) comes as two objects.
TupleArgs ==
    { PyObj("tuple", 20, <<>>),
      PyObj("tuple", 21, <<TypeA>>),
      PyObj("tuple", 22, <<TypeInt>>),
      PyObj("tuple", 23, <<TypeA, TypeB>>),
      PyObj("tuple", 24, <<TypeA, TypeB>>),
      PyObj("tuple", 25, <<TypeB, TypeA>>),
      PyObj("tuple", 26, <<TypeA, TypeA>>),
      PyObj("tuple", 27, <<TypeA, TypeNonIsinstanceable>>) }

\* The frozensets passed to add_func_scope_types(): {A, B} built in both
\* insertion orders, each iterated in the order its hash table gives.
FrozensetArgs(slot) ==
    { PyObj("frozenset", 28, SetOrder(slot, <<TypeA, TypeB>>)),
      PyObj("frozenset", 29, SetOrder(slot, <<TypeB, TypeA>>)),
      PyObj("frozenset", 30, <<TypeA>>) }

\* The calls made to add_func_scope_types(): is_unique is passed as true
\* only with a tuple of two distinct classes.
TypesCalls(slot) ==
    {<<types, FALSE>> : types \in TupleArgs \cup FrozensetArgs(slot) \cup {NotAType}}
        \cup {<<types, TRUE>> : types \in {t \in TupleArgs : Len(Dedup(t.items)) >= 2}}

TypeOrTypesArgs == {TypeA, NotAType, PyObj("tuple", 23, <<TypeA, TypeB>>)}

\* "muh_package.MuhClass", "MuhClass", "MuhOtherClass" and an object that is
\* no forward reference.
ForwardrefArgs == {ClassName(1, 1), ClassName(0, 1), ClassName(0, 2), NotAType}

\* Largest number of calls made to the registry functions.
MaxScopeCalls == 3

LastCall(op, arg, is_unique, result, first) ==
    [op |-> op, arg |-> arg, is_unique |-> is_unique, kind |-> result.kind,
     value |-> result.value, first |-> first]

\* The name returned first for an argument is remembered for the classes that
\* add_func_scope_type() registers and for the collections of two or more
\* classes passed to add_func_scope_types() with the default is_unique.
Remember(first, op, arg, is_unique, result) ==
    IF /\ result.kind = "return"
       /\ op \in {"add_func_scope_type", "add_func_scope_types"}
       /\ ~is_unique
       /\ DictGet(first, arg, SENTINEL) = SENTINEL
       /\ \/ arg.tag = "type" /\ ~IsTypeBuiltin(arg)
          \/ arg.tag \in {"tuple", "frozenset"} /\ Len(arg.items) >= 2
    THEN DictSet(first, arg, result.value)
    ELSE first

ScopeApply(op, arg, is_unique, result) ==
    /\ sc_calls < MaxScopeCalls
    /\ sc_calls' = sc_calls + 1
    /\ func_scope' = result.func_scope
    /\ bear_typistry' = result.bear_typistry
    /\ next_obj' = IF result.allocated THEN next_obj + 1 ELSE next_obj
    /\ sc_last' = LastCall(op, arg, is_unique, result, DictGet(sc_first, arg, SENTINEL))
    /\ sc_first' = Remember(sc_first, op, arg, is_unique, result)
    /\ UNCHANGED <<forwardrefs_class_basename, hash_slot, cacheVars, compileVars, threads, decorated>>

\* A call add_func_scope_type(cls, func_scope).
CallAddFuncScopeType(cls) ==
    ScopeApply("add_func_scope_type", cls, FALSE,
               AddFuncScopeType(cls, func_scope, bear_typistry))

\* A call add_func_scope_types(types, func_scope, is_unique).
CallAddFuncScopeTypes(types, is_unique) ==
    ScopeApply("add_func_scope_types", types, is_unique,
               AddFuncScopeTypes(types, func_scope, bear_typistry, is_unique,
                                 hash_slot, next_obj))

\* A call add_func_scope_type_or_types(type_or_types, func_scope).
CallAddFuncScopeTypeOrTypes(type_or_types) ==
    ScopeApply("add_func_scope_type_or_types", type_or_types, FALSE,
                  AddFuncScopeTypeOrTypes(type_or_types, func_scope, bear_typistry,
                                          hash_slot, next_obj))

\* A call express_func_scope_type_forwardref(forwardref,
\* forwardrefs_class_basename, func_scope).
CallExpressFuncScopeTypeForwardref(forwardref) ==
    LET result == ExpressFuncScopeTypeForwardref(
                      forwardref, forwardrefs_class_basename, func_scope)
    IN  /\ sc_calls < MaxScopeCalls
        /\ sc_calls' = sc_calls + 1
        /\ func_scope' = result.func_scope
        /\ forwardrefs_class_basename' = result.basenames
        /\ sc_last' = LastCall("express_func_scope_type_forwardref", forwardref,
                               FALSE, result, SENTINEL)
        /\ UNCHANGED <<bear_typistry, next_obj, sc_first, hash_slot, cacheVars,
                       compileVars, threads, decorated>>

NoCall == [op |-> "none", arg |-> SENTINEL, is_unique |-> FALSE, kind |-> "return",
           value |-> SENTINEL, first |-> SENTINEL]

\* An empty scope, an empty beartypistry and no relative forward reference.
InitScopeVars ==
    /\ func_scope = EmptyDict
    /\ bear_typistry = EmptyDict
    /\ forwardrefs_class_basename = NoneSet
    /\ sc_first = EmptyDict
    /\ sc_last = NoCall
    /\ sc_calls = 0

\* The addresses of the classes A and B fall in any hash table slots.
InitHashSlot ==
    hash_slot \in {slot \in [{TypeA, TypeB} -> {0, 1}] : slot[TypeA] = 0 \/ slot[TypeB] = 0}

----------------------------------------------------------------------------
(* pep_code_check_hint, beartype/_decor/_code/_pep/_pephint.py             *)

\* Length of the fixed list holding the work queue (scaled down).
SIZE_BIG == 4

\* Largest number of calls made to pep_code_check_hint.
MaxCompileCalls == 2

\* typing.Any
HintAny == PyObj("Any", 0, <<>>)

\* typing.List[child]
HintList(child) == PyObj("List", 0, <<child>>)

\* typing.Union[childs]; two unions of the same members are equal objects of
\* different identities.
HintUnion(id, childs) == PyObj("Union", id, childs)

\* typing.Dict[str, int]
HintDict == PyObj("Dict", 0, <<TypeStr, TypeInt>>)

\* A typing.TypeVar
HintTypeVar == PyObj("TypeVar", 0, <<>>)

HINTS_IGNORABLE == {HintAny, TypeObject}

\* A test that takes typing.Any for an unignorable hint.
IsHintIgnorableObjectOnly(hint) == PyEq(TypeObject, hint)

\* hint in HINTS_IGNORABLE
IsHintIgnorable(hint) == \E ignorable \in HINTS_IGNORABLE : PyEq(ignorable, hint)

\* is_hint_pep(hint)
IsHintPep(hint) == hint.tag \in {"Any", "List", "Union", "Dict", "TypeVar"}

\* die_unless_hint_pep_supported(hint) returns rather than raises.
IsHintPepSupported(hint) == hint.tag # "TypeVar"

\* get_hint_pep_typing_attr(hint)
GetHintPepTypingAttr(hint) == hint.tag

TYPING_ATTRS_SEQUENCE_STANDARD == {"List"}

\* get_hint_type_origin_or_none(hint_attr)
GetHintTypeOriginOrNone(hint_attr) ==
    IF hint_attr = "List" THEN TypeList
    ELSE IF hint_attr = "Dict" THEN TypeDict
    ELSE PyNone

\* register_typistry_type(hint)
RegisterTypistryType(hint, scope, typistry) == AddFuncScopeType(hint, scope, typistry)

\* register_typistry_tuple(hint, is_types_unique)
RegisterTypistryTuple(hint, is_types_unique, scope, typistry, slot) ==
    AddFuncScopeTypes(hint, scope, typistry, is_types_unique, slot, hint.id)

\* Code is a string, kept as the sequence of its tokens.  A token is an
\* object whose tag is its text and whose id is the number it is formatted
\* with: the indentation level, or the number of a placeholder.
Tok(text, n) == PyObj(text, n, <<>>)

CODE_INDENT_1 == 1
CODE_INDENT_2 == 2

\* PEP_CODE_PITH_ROOT_EXPR: the passed parameter or the return value.
PEP_CODE_PITH_ROOT_EXPR == PyObj("__beartype_pith_root", 0, <<>>)

\* PEP_CODE_CHECK_HINT_SEQUENCE_STANDARD_PITH_CHILD_EXPR.format(pith_curr_expr):
\* the randomly indexed item of the sequence pith_curr_expr.
PEP_CODE_CHECK_HINT_SEQUENCE_STANDARD_PITH_CHILD_EXPR(pith_curr_expr) ==
    PyObj("[__beartype_random_int % len]", 0, <<pith_curr_expr>>)

\* data.get_next_pep_hint_placeholder() when the counter of data is n.
GetNextPepHintPlaceholder(n) == <<Tok("@{}!", n)>>

\* PITH_ROOT_NAME_PLACEHOLDER_STR: the substring the caller replaces by the
\* name of the parameter, or by 'return'.
PITH_ROOT_NAME_PLACEHOLDER_STR == <<Tok("$%PITH_ROOT_NAME/~", 0)>>

\* PEP_CODE_CHECK_HINT_ROOT.format(hint_child_placeholder)
PEP_CODE_CHECK_HINT_ROOT(hint_child_placeholder) ==
    <<Tok("if not", CODE_INDENT_2)>> \o hint_child_placeholder
        \o <<Tok(": raise __beartype_raise_pep_call_exception", CODE_INDENT_2)>>
        \o PITH_ROOT_NAME_PLACEHOLDER_STR

\* PEP_CODE_CHECK_HINT_NONPEP_TYPE.format(pith_curr_expr, hint_curr_expr)
PEP_CODE_CHECK_HINT_NONPEP_TYPE(pith_curr_expr, hint_curr_expr) ==
    <<PyObj("isinstance", 0, <<pith_curr_expr, hint_curr_expr>>)>>

PEP_CODE_CHECK_HINT_UNION_PREFIX == <<Tok("(", 0)>>

PEP_CODE_CHECK_HINT_UNION_SUFFIX(indent_curr) == <<Tok(")", indent_curr)>>

\* PEP_CODE_CHECK_HINT_UNION_ARG_NONPEP.format(pith_curr_expr, hint_curr_expr)
PEP_CODE_CHECK_HINT_UNION_ARG_NONPEP(pith_curr_expr, hint_curr_expr, indent_curr) ==
    <<PyObj("isinstance", 0, <<pith_curr_expr, hint_curr_expr>>), Tok("or", indent_curr)>>

\* PEP_CODE_CHECK_HINT_UNION_ARG_PEP.format(hint_child_placeholder)
PEP_CODE_CHECK_HINT_UNION_ARG_PEP(hint_child_placeholder, indent_curr) ==
    hint_child_placeholder \o <<Tok("or", indent_curr)>>

\* PEP_CODE_CHECK_HINT_SEQUENCE_STANDARD.format(indent_curr, pith_curr_expr,
\* hint_curr_expr, hint_child_placeholder)
PEP_CODE_CHECK_HINT_SEQUENCE_STANDARD(indent_curr, pith_curr_expr, hint_curr_expr, hint_child_placeholder) ==
    <<Tok("(", indent_curr),
      PyObj("isinstance", 0, <<pith_curr_expr, hint_curr_expr>>),
      Tok("and", indent_curr)>>
        \o hint_child_placeholder \o <<Tok(")", indent_curr)>>

\* str.replace(old, new) on code, old being one token.
RECURSIVE StrReplace(_, _, _)
StrReplace(code, old, new) ==
    IF code = <<>> THEN <<>>
    ELSE IF <<Head(code)>> = old THEN new \o StrReplace(Tail(code), old, new)
    ELSE <<Head(code)>> \o StrReplace(Tail(code), old, new)

\* Metadata that stores a member of the passed pith rather than the pith.
HintMetaMemberPith(hint, placeholder, pith_expr, indent) ==
    PyObj("FixedList", 0,
          <<hint, placeholder[1],
            PEP_CODE_CHECK_HINT_SEQUENCE_STANDARD_PITH_CHILD_EXPR(pith_expr), PyInt(indent)>>)

\* The fixed list of the metadata of one hint.
HintMeta(hint, placeholder, pith_expr, indent) ==
    PyObj("FixedList", 0, <<hint, placeholder[1], pith_expr, PyInt(indent)>>)

HintMetaHint(hint_meta)        == hint_meta.items[1]
HintMetaPlaceholder(hint_meta) == <<hint_meta.items[2]>>
HintMetaPithExpr(hint_meta)    == hint_meta.items[3]
HintMetaIndent(hint_meta)      == hint_meta.items[4].id

\* EXCEPTION_CACHED_PLACEHOLDER: the substring the caller of a memoized
\* callable replaces in the message of a cached exception.
EXCEPTION_CACHED_PLACEHOLDER == Tok("EXCEPTION_CACHED_PLACEHOLDER", 0)

\* hint_root_label and hint_child_label, without the repr() of the root hint.
HintRootLabel == <<EXCEPTION_CACHED_PLACEHOLDER>>
HintChildLabel == HintRootLabel \o <<Tok(" child", 0)>>

\* The exceptions pep_code_check_hint raises; the items are the message.
ExceptionCapacity ==
    PyObj("BeartypeDecorHintPepException", 0,
          HintRootLabel \o <<Tok("contains more than {} typing types", SIZE_BIG)>>)
ExceptionNotPep ==
    PyObj("BeartypeDecorHintPepException", 0,
          HintChildLabel \o <<Tok("not PEP-compliant", 0)>>)
ExceptionNotChecked ==
    PyObj("BeartypeDecorHintPepException", 0,
          HintRootLabel \o <<Tok("not type-checked", 0)>>)
ExceptionUnsupported ==
    PyObj("BeartypeDecorHintPepUnsupportedException", 0,
          HintChildLabel \o <<Tok("unsupported", 0)>>)
ExceptionIgnorable ==
    PyObj("AssertionError", 0, HintChildLabel \o <<Tok("ignorable", 0)>>)
ExceptionIndex ==
    PyObj("IndexError", 0, <<Tok("list assignment index out of range", 0)>>)

\* A test that lets one more hint in than the work queue holds.
IsCapacityExceededOffByOne(hints_meta_index_last, hint_childs_len) ==
    hints_meta_index_last + hint_childs_len > SIZE_BIG

\* hints_meta_index_last + len(hint_childs) >= SIZE_BIG
IsCapacityExceeded(hints_meta_index_last, hint_childs_len) ==
    hints_meta_index_last + hint_childs_len >= SIZE_BIG

\* What one iteration of the loop computes: the exception it raises or None,
\* the code of the current hint, the metadata of the children it enqueues,
\* the fields of data, the registry, and the number of hints the work queue
\* has to hold.
Step(exception, func_curr_code, hint_childs_meta, d, reg, needed) ==
    [exception |-> exception, func_curr_code |-> func_curr_code,
     hint_childs_meta |-> hint_childs_meta, data |-> d,
     func_scope |-> reg.func_scope, bear_typistry |-> reg.bear_typistry,
     needed |-> needed]

\* An iteration for a typing.Union that merges no class into one test: it
\* enqueues every child, a class as well.
VisitUnionUnmerged(hint_curr_meta, f, d, scope, typistry, slot, fresh) ==
    LET hint_curr      == HintMetaHint(hint_curr_meta)
        pith_curr_expr == HintMetaPithExpr(hint_curr_meta)
        indent_curr    == HintMetaIndent(hint_curr_meta)
        indent_child   == indent_curr + CODE_INDENT_1
        hint_childs    == hint_curr.items
        Unignorable(hint_child) == ~IsHintIgnorable(hint_child)
        NotNone(obj)   == obj # PyNone
        unignorable    == SelectSeq(hint_childs, Unignorable)
        NonpepOf(hint_child) ==
            IF IsHintPep(hint_child)
            THEN GetHintTypeOriginOrNone(GetHintPepTypingAttr(hint_child))
            ELSE hint_child
        hint_childs_nonpep == <<>>
        hint_childs_pep == SetOrder(slot, unignorable)
        d_sets == [d EXCEPT !.set_a = hint_childs_nonpep, !.set_b = hint_childs_pep]
        reg == IF hint_childs_nonpep = <<>> THEN Returned(PyNone, scope, typistry)
               ELSE RegisterTypistryTuple(PyObj("tuple", fresh, hint_childs_nonpep), TRUE,
                                          scope, typistry, slot)
        code_nonpep ==
            IF hint_childs_nonpep = <<>> THEN PEP_CODE_CHECK_HINT_UNION_PREFIX
            ELSE PEP_CODE_CHECK_HINT_UNION_PREFIX
                    \o PEP_CODE_CHECK_HINT_UNION_ARG_NONPEP(pith_curr_expr, reg.value, indent_curr)
        n == Len(hint_childs_pep)
        Placeholder(i) == GetNextPepHintPlaceholder(d.pep_hint_child_id + i)
        hint_childs_meta ==
            [i \in 1..n |-> HintMeta(hint_childs_pep[i], Placeholder(i), pith_curr_expr,
                                     indent_child)]
        code_pep ==
            code_nonpep \o
            [j \in 1..(2 * n) |->
                PEP_CODE_CHECK_HINT_UNION_ARG_PEP(Placeholder((j + 1) \div 2), indent_curr)
                    [2 - (j % 2)]]
        func_curr_code ==
            IF code_pep # PEP_CODE_CHECK_HINT_UNION_PREFIX
            THEN SubSeq(code_pep, 1, Len(code_pep) - 1)
                    \o PEP_CODE_CHECK_HINT_UNION_SUFFIX(indent_curr)
            ELSE code_pep
    IN  IF reg.kind = "raise"
        THEN Step(reg.value, <<>>, <<>>, d_sets, reg, f.needed)
        ELSE IF n > 0 /\ IsCapacityExceeded(f.hints_meta_index_last, n)
        THEN Step(ExceptionCapacity, <<>>, <<>>, d_sets, reg,
                  f.hints_meta_index_last + 1 + n)
        ELSE Step(PyNone, func_curr_code, hint_childs_meta,
                  [d_sets EXCEPT !.pep_hint_child_id = @ + n], reg,
                  IF n > 0 THEN f.hints_meta_index_last + 1 + n ELSE f.needed)

\* The iteration of the loop for a typing.Union.
VisitUnion(hint_curr_meta, f, d, scope, typistry, slot, fresh) ==
    LET hint_curr      == HintMetaHint(hint_curr_meta)
        pith_curr_expr == HintMetaPithExpr(hint_curr_meta)
        indent_curr    == HintMetaIndent(hint_curr_meta)
        indent_child   == indent_curr + CODE_INDENT_1
        hint_childs    == hint_curr.items
        Unignorable(hint_child) == ~IsHintIgnorable(hint_child)
        NotNone(obj)   == obj # PyNone
        unignorable    == SelectSeq(hint_childs, Unignorable)
        NonpepOf(hint_child) ==
            IF IsHintPep(hint_child)
            THEN GetHintTypeOriginOrNone(GetHintPepTypingAttr(hint_child))
            ELSE hint_child
        hint_childs_nonpep ==
            SetOrder(slot, SelectSeq([i \in DOMAIN unignorable |-> NonpepOf(unignorable[i])],
                                     NotNone))
        hint_childs_pep == SetOrder(slot, SelectSeq(unignorable, IsHintPep))
        d_sets == [d EXCEPT !.set_a = hint_childs_nonpep, !.set_b = hint_childs_pep]
        reg == IF hint_childs_nonpep = <<>> THEN Returned(PyNone, scope, typistry)
               ELSE RegisterTypistryTuple(PyObj("tuple", fresh, hint_childs_nonpep), TRUE,
                                          scope, typistry, slot)
        code_nonpep ==
            IF hint_childs_nonpep = <<>> THEN PEP_CODE_CHECK_HINT_UNION_PREFIX
            ELSE PEP_CODE_CHECK_HINT_UNION_PREFIX
                    \o PEP_CODE_CHECK_HINT_UNION_ARG_NONPEP(pith_curr_expr, reg.value, indent_curr)
        n == Len(hint_childs_pep)
        Placeholder(i) == GetNextPepHintPlaceholder(d.pep_hint_child_id + i)
        hint_childs_meta ==
            [i \in 1..n |-> HintMeta(hint_childs_pep[i], Placeholder(i), pith_curr_expr,
                                     indent_child)]
        code_pep ==
            code_nonpep \o
            [j \in 1..(2 * n) |->
                PEP_CODE_CHECK_HINT_UNION_ARG_PEP(Placeholder((j + 1) \div 2), indent_curr)
                    [2 - (j % 2)]]
        func_curr_code ==
            IF code_pep # PEP_CODE_CHECK_HINT_UNION_PREFIX
            THEN SubSeq(code_pep, 1, Len(code_pep) - 1)
                    \o PEP_CODE_CHECK_HINT_UNION_SUFFIX(indent_curr)
            ELSE code_pep
    IN  IF reg.kind = "raise"
        THEN Step(reg.value, <<>>, <<>>, d_sets, reg, f.needed)
        ELSE IF n > 0 /\ IsCapacityExceeded(f.hints_meta_index_last, n)
        THEN Step(ExceptionCapacity, <<>>, <<>>, d_sets, reg,
                  f.hints_meta_index_last + 1 + n)
        ELSE Step(PyNone, func_curr_code, hint_childs_meta,
                  [d_sets EXCEPT !.pep_hint_child_id = @ + n], reg,
                  IF n > 0 THEN f.hints_meta_index_last + 1 + n ELSE f.needed)

\* An iteration for a standard sequence that emits the placeholder of the
\* child without enqueueing the child.
VisitSequenceStandardNoEnqueue(hint_curr_meta, f, d, scope, typistry, slot, fresh) ==
    LET hint_curr      == HintMetaHint(hint_curr_meta)
        pith_curr_expr == HintMetaPithExpr(hint_curr_meta)
        indent_curr    == HintMetaIndent(hint_curr_meta)
        reg == RegisterTypistryType(GetHintTypeOriginOrNone(GetHintPepTypingAttr(hint_curr)),
                                    scope, typistry)
        hint_child_placeholder == GetNextPepHintPlaceholder(d.pep_hint_child_id + 1)
    IN  IF IsHintIgnorable(hint_curr.items[1])
        THEN Step(PyNone, PEP_CODE_CHECK_HINT_NONPEP_TYPE(pith_curr_expr, reg.value),
                  <<>>, d, reg, f.needed)
        ELSE Step(PyNone,
                  PEP_CODE_CHECK_HINT_SEQUENCE_STANDARD(indent_curr, pith_curr_expr,
                                                        reg.value, hint_child_placeholder),
                  <<>>,
                  [d EXCEPT !.pep_hint_child_id = @ + 1,
                            !.is_func_wrapper_needs_random_int = TRUE],
                  reg, f.needed)

\* An iteration for a standard sequence that leaves the flag of data alone.
VisitSequenceStandardNoRandomInt(hint_curr_meta, f, d, scope, typistry, slot, fresh) ==
    LET hint_curr      == HintMetaHint(hint_curr_meta)
        hint_curr_attr == GetHintPepTypingAttr(hint_curr)
        pith_curr_expr == HintMetaPithExpr(hint_curr_meta)
        indent_curr    == HintMetaIndent(hint_curr_meta)
        indent_child   == indent_curr + CODE_INDENT_1
        hint_child     == hint_curr.items[1]
        reg == RegisterTypistryType(GetHintTypeOriginOrNone(hint_curr_attr), scope, typistry)
        hint_child_placeholder == GetNextPepHintPlaceholder(d.pep_hint_child_id + 1)
        d_random == d
        hint_child_meta ==
            HintMeta(hint_child, hint_child_placeholder,
                     PEP_CODE_CHECK_HINT_SEQUENCE_STANDARD_PITH_CHILD_EXPR(pith_curr_expr),
                     indent_child)
    IN  IF reg.kind = "raise"
        THEN Step(reg.value, <<>>, <<>>, d, reg, f.needed)
        ELSE IF IsHintIgnorable(hint_child)
        THEN Step(PyNone, PEP_CODE_CHECK_HINT_NONPEP_TYPE(pith_curr_expr, reg.value),
                  <<>>, d, reg, f.needed)
        ELSE IF IsCapacityExceeded(f.hints_meta_index_last, 1)
        THEN Step(ExceptionCapacity, <<>>, <<>>, d_random, reg,
                  f.hints_meta_index_last + 2)
        ELSE Step(PyNone,
                  PEP_CODE_CHECK_HINT_SEQUENCE_STANDARD(indent_curr, pith_curr_expr,
                                                        reg.value, hint_child_placeholder),
                  <<hint_child_meta>>,
                  [d_random EXCEPT !.pep_hint_child_id = @ + 1], reg,
                  f.hints_meta_index_last + 2)

\* The iteration of the loop for a standard sequence, typing.List[...].
VisitSequenceStandard(hint_curr_meta, f, d, scope, typistry, slot, fresh) ==
    LET hint_curr      == HintMetaHint(hint_curr_meta)
        hint_curr_attr == GetHintPepTypingAttr(hint_curr)
        pith_curr_expr == HintMetaPithExpr(hint_curr_meta)
        indent_curr    == HintMetaIndent(hint_curr_meta)
        indent_child   == indent_curr + CODE_INDENT_1
        hint_child     == hint_curr.items[1]
        reg == RegisterTypistryType(GetHintTypeOriginOrNone(hint_curr_attr), scope, typistry)
        hint_child_placeholder == GetNextPepHintPlaceholder(d.pep_hint_child_id + 1)
        d_random == [d EXCEPT !.is_func_wrapper_needs_random_int = TRUE]
        hint_child_meta ==
            HintMeta(hint_child, hint_child_placeholder,
                     PEP_CODE_CHECK_HINT_SEQUENCE_STANDARD_PITH_CHILD_EXPR(pith_curr_expr),
                     indent_child)
    IN  IF reg.kind = "raise"
        THEN Step(reg.value, <<>>, <<>>, d, reg, f.needed)
        ELSE IF IsHintIgnorable(hint_child)
        THEN Step(PyNone, PEP_CODE_CHECK_HINT_NONPEP_TYPE(pith_curr_expr, reg.value),
                  <<>>, d, reg, f.needed)
        ELSE IF IsCapacityExceeded(f.hints_meta_index_last, 1)
        THEN Step(ExceptionCapacity, <<>>, <<>>, d_random, reg,
                  f.hints_meta_index_last + 2)
        ELSE Step(PyNone,
                  PEP_CODE_CHECK_HINT_SEQUENCE_STANDARD(indent_curr, pith_curr_expr,
                                                        reg.value, hint_child_placeholder),
                  <<hint_child_meta>>,
                  [d_random EXCEPT !.pep_hint_child_id = @ + 1], reg,
                  f.hints_meta_index_last + 2)

\* One iteration of the loop of pep_code_check_hint, up to the code of the
\* current hint.
VisitHint(hint_curr_meta, f, d, scope, typistry, slot, fresh) ==
    LET hint_curr      == HintMetaHint(hint_curr_meta)
        pith_curr_expr == HintMetaPithExpr(hint_curr_meta)
        nothing        == Returned(PyNone, scope, typistry)
        reg_origin ==
            RegisterTypistryType(GetHintTypeOriginOrNone(GetHintPepTypingAttr(hint_curr)),
                                 scope, typistry)
        reg_type == RegisterTypistryType(hint_curr, scope, typistry)
    IN  IF IsHintPep(hint_curr)
        THEN IF ~IsHintPepSupported(hint_curr)
             THEN Step(ExceptionUnsupported, <<>>, <<>>, d, nothing, f.needed)
             ELSE IF IsHintIgnorable(hint_curr)
             THEN Step(ExceptionIgnorable, <<>>, <<>>, d, nothing, f.needed)
             ELSE IF GetHintPepTypingAttr(hint_curr) = "Union"
             THEN VisitUnion(hint_curr_meta, f, d, scope, typistry, slot, fresh)
             ELSE IF GetHintPepTypingAttr(hint_curr) \in TYPING_ATTRS_SEQUENCE_STANDARD
             THEN VisitSequenceStandard(hint_curr_meta, f, d, scope, typistry, slot, fresh)
             ELSE IF reg_origin.kind = "raise"
             THEN Step(reg_origin.value, <<>>, <<>>, d, reg_origin, f.needed)
             ELSE Step(PyNone, PEP_CODE_CHECK_HINT_NONPEP_TYPE(pith_curr_expr, reg_origin.value),
                       <<>>, d, reg_origin, f.needed)
        ELSE IF hint_curr.tag = "type"
        THEN IF reg_type.kind = "raise"
             THEN Step(reg_type.value, <<>>, <<>>, d, reg_type, f.needed)
             ELSE Step(PyNone, PEP_CODE_CHECK_HINT_NONPEP_TYPE(pith_curr_expr, reg_type.value),
                       <<>>, d, reg_type, f.needed)
        ELSE Step(ExceptionNotPep, <<>>, <<>>, d, nothing, f.needed)

\* The BeartypeData objects passed to pep_code_check_hint.
DataIds == {1, 2}

DataObj(id) == PyObj("BeartypeData", id, <<>>)

\* The fields of a new BeartypeData object.
DataNew ==
    [pep_hint_child_id |-> 0, is_func_wrapper_needs_random_int |-> FALSE,
     set_a |-> <<>>, set_b |-> <<>>]

HintsMetaIndices == 0..(SIZE_BIG - 1)

\* The fixed list hints_meta among the fixed lists passed to
\* release_fixed_list(); the metadata of a hint goes by its index in hints_meta.
HINTS_META == -1

\* No activation of pep_code_check_hint.
FrameIdle ==
    [pc |-> "idle", data |-> 0, hint_root |-> PyNone, params_flat |-> PyNone,
     hints_meta |-> [i \in HintsMetaIndices |-> PyNone],
     hints_meta_index_curr |-> 0, hints_meta_index_last |-> 0,
     func_root_code |-> <<>>, func_code |-> <<>>, written |-> {}, needed |-> 0,
     released |-> <<>>]

\* The hints passed to pep_code_check_hint.
HintArgs ==
    {TypeInt,
     TypeNonIsinstanceable,
     NotAType,
     HintTypeVar,
     ClassName(1, 1),
     HintList(TypeInt),
     HintList(HintAny),
     HintList(NotAType),
     HintList(HintList(HintList(HintList(TypeInt)))),
     HintList(HintUnion(0, <<TypeInt, HintList(TypeStr)>>)),
     HintUnion(0, <<TypeA, TypeInt, TypeStr>>),
     HintUnion(0, <<TypeInt, NotAType>>),
     HintUnion(0, <<HintTypeVar, HintList(TypeInt)>>),
     HintUnion(0, <<HintAny, TypeObject>>),
     HintUnion(1, <<TypeInt, HintList(TypeStr)>>),
     HintUnion(2, <<HintList(TypeStr), TypeInt>>),
     HintUnion(0, <<HintList(TypeInt), HintList(TypeStr), HintDict>>)}

PepLogEntry(f, kind, obj, invoked, written, needed) ==
    [data |-> f.data, hint |-> f.hint_root, key |-> f.params_flat, kind |-> kind,
     obj |-> obj, invoked |-> invoked, written |-> written, needed |-> needed,
     resolved |-> f.hints_meta_index_curr, released |-> f.released]

\* A call pep_code_check_hint(data, hint): the memoized closure looks the
\* parameters up and, when it finds neither an exception nor a value, enters
\* the function, which runs up to the first iteration of its loop.
PepCall(id, hint) ==
    /\ frame.pc = "idle"
    /\ Len(pep_log) < MaxCompileCalls
    /\ LET params_flat  == ParamsFlat(<<DataObj(id), hint>>, <<>>)
           exception    == DictGet(params_flat_to_exception, params_flat, SENTINEL)
           return_value == DictGet(params_flat_to_return_value, params_flat, SENTINEL)
           called == [FrameIdle EXCEPT !.data = id, !.hint_root = hint,
                                       !.params_flat = params_flat]
           hint_child_placeholder ==
               GetNextPepHintPlaceholder(data[id].pep_hint_child_id + 1)
           hint_root_meta ==
               HintMeta(hint, hint_child_placeholder, PEP_CODE_PITH_ROOT_EXPR, CODE_INDENT_2)
           func_root_code == PEP_CODE_CHECK_HINT_ROOT(hint_child_placeholder)
       IN  IF exception # SENTINEL
           THEN /\ pep_log' = Append(pep_log,
                        PepLogEntry(called, "raise", exception, FALSE, {}, 0))
                /\ UNCHANGED <<data, frame>>
           ELSE IF return_value # SENTINEL
           THEN /\ pep_log' = Append(pep_log,
                        PepLogEntry(called, "return", return_value, FALSE, {}, 0))
                /\ UNCHANGED <<data, frame>>
           ELSE /\ data' = [data EXCEPT ![id].pep_hint_child_id = @ + 1]
                /\ frame' = [called EXCEPT
                        !.pc = "loop",
                        !.hints_meta = [i \in HintsMetaIndices |->
                                            IF i = 0 THEN hint_root_meta ELSE PyNone],
                        !.func_root_code = func_root_code,
                        !.func_code = func_root_code,
                        !.written = {0},
                        !.needed = 1]
                /\ UNCHANGED pep_log
    /\ UNCHANGED <<params_flat_to_return_value, params_flat_to_exception, cc_log,
                   next_obj, scopeVars, threads, decorated>>

\* A work queue whose visited item is left in its place.
HintsMetaAfterUnreleased(hints_meta, index_curr, index_last, hint_childs_meta) ==
    [i \in HintsMetaIndices |->
        IF i \in {index_last + k : k \in 1..Len(hint_childs_meta)}
        THEN hint_childs_meta[i - index_last]
        ELSE hints_meta[i]]

\* The work queue after an iteration: the children are enqueued past the
\* last index and the visited item is replaced by None.
HintsMetaAfter(hints_meta, index_curr, index_last, hint_childs_meta) ==
    [i \in HintsMetaIndices |->
        IF i = index_curr THEN PyNone
        ELSE IF i \in {index_last + k : k \in 1..Len(hint_childs_meta)}
        THEN hint_childs_meta[i - index_last]
        ELSE hints_meta[i]]

\* One iteration of the loop of pep_code_check_hint.  An exception leaves the
\* function and the memoized closure caches it before raising it again.
PepVisit ==
    /\ frame.pc = "loop"
    /\ frame.hints_meta_index_curr <= frame.hints_meta_index_last
    /\ LET f  == frame
           st == VisitHint(f.hints_meta[f.hints_meta_index_curr], f, data[f.data],
                           func_scope, bear_typistry, hash_slot, next_obj)
           n  == Len(st.hint_childs_meta)
           indices == {f.hints_meta_index_last + i : i \in 1..n}
           is_index_error == \E i \in indices : i \notin HintsMetaIndices
           exception ==
               IF st.exception # PyNone THEN [st.exception EXCEPT !.id = next_obj + 1]
               ELSE [ExceptionIndex EXCEPT !.id = next_obj + 1]
       IN  /\ next_obj' = next_obj + 2
           /\ data' = [data EXCEPT ![f.data] = st.data]
           /\ func_scope' = st.func_scope
           /\ bear_typistry' = st.bear_typistry
           /\ IF st.exception # PyNone \/ is_index_error
              THEN /\ params_flat_to_exception' =
                         DictSet(params_flat_to_exception, f.params_flat, exception)
                   /\ pep_log' = Append(pep_log,
                         PepLogEntry(f, "raise", exception, TRUE,
                                     f.written \cup indices, st.needed))
                   /\ frame' = FrameIdle
              ELSE /\ frame' = [f EXCEPT
                         !.hints_meta = HintsMetaAfter(f.hints_meta, f.hints_meta_index_curr,
                                                       f.hints_meta_index_last,
                                                       st.hint_childs_meta),
                         !.hints_meta_index_last = @ + n,
                         !.hints_meta_index_curr = @ + 1,
                         !.func_code =
                             StrReplace(f.func_code,
                                 HintMetaPlaceholder(f.hints_meta[f.hints_meta_index_curr]),
                                 st.func_curr_code),
                         !.written = @ \cup indices,
                         !.needed = st.needed,
                         !.released = Append(@, f.hints_meta_index_curr)]
                   /\ UNCHANGED <<params_flat_to_exception, pep_log>>
    /\ UNCHANGED <<params_flat_to_return_value, cc_log, forwardrefs_class_basename,
                   hash_slot, sc_first, sc_last, sc_calls, threads, decorated>>

\* The end of pep_code_check_hint after its loop; the memoized closure caches
\* the code it returns or the exception it raises.
PepFinish ==
    /\ frame.pc = "loop"
    /\ frame.hints_meta_index_curr > frame.hints_meta_index_last
    /\ LET f == [frame EXCEPT !.released = Append(@, HINTS_META)]
           exception == [ExceptionNotChecked EXCEPT !.id = next_obj]
           func_code == PyObj("str", 0, f.func_code)
       IN  IF f.func_code = f.func_root_code
           THEN /\ params_flat_to_exception' =
                      DictSet(params_flat_to_exception, f.params_flat, exception)
                /\ pep_log' = Append(pep_log,
                      PepLogEntry(f, "raise", exception, TRUE, f.written, f.needed))
                /\ next_obj' = next_obj + 1
                /\ UNCHANGED params_flat_to_return_value
           ELSE /\ params_flat_to_return_value' =
                      DictSet(params_flat_to_return_value, f.params_flat, func_code)
                /\ pep_log' = Append(pep_log,
                      PepLogEntry(f, "return", func_code, TRUE, f.written, f.needed))
                /\ UNCHANGED <<params_flat_to_exception, next_obj>>
    /\ frame' = FrameIdle
    /\ UNCHANGED <<data, cc_log, scopeVars, threads, decorated>>

\* No call made yet on new BeartypeData objects.
InitCompileVars ==
    /\ data = [id \in DataIds |-> DataNew]
    /\ frame = FrameIdle
    /\ pep_log = <<>>

----------------------------------------------------------------------------
(* The evaluation of the code pep_code_check_hint returns.                 *)

\* The objects type-checked: 1, '1', [1], ['1'], [1, '1'], [[1]], an
\* instance of the class A and {}.
Candidates ==
    {PyInt(1), PyStr(1),
     PyObj("list", 0, <<PyInt(1)>>), PyObj("list", 0, <<PyStr(1)>>),
     PyObj("list", 0, <<PyInt(1), PyStr(1)>>),
     PyObj("list", 0, <<PyObj("list", 0, <<PyInt(1)>>)>>),
     PyObj("A", 0, <<>>), PyObj("dict", 0, <<>>)}

\* The values of __beartype_random_int.
RandomInts == {0, 1}

\* type(value)
ClassOf(value) ==
    IF value.tag = "int" THEN TypeInt
    ELSE IF value.tag = "str" THEN TypeStr
    ELSE IF value.tag = "list" THEN TypeList
    ELSE IF value.tag = "dict" THEN TypeDict
    ELSE IF value.tag = "A" THEN TypeA
    ELSE TypeObject

\* isinstance(value, cls), cls being a class or a tuple of classes.
IsInstance(value, cls) ==
    IF cls.tag = "tuple"
    THEN \E i \in DOMAIN cls.items : cls.items[i] \in {ClassOf(value), TypeObject}
    ELSE cls \in {ClassOf(value), TypeObject}

\* The object a name of the code evaluates to: a builtin or an attribute of
\* the scope.
ResolveName(name, scope) ==
    IF name.tag = "str_basename" THEN PyType(name.id)
    ELSE DictGet(scope, name, PyNone)

\* The value of a pith expression for the passed object.
RECURSIVE EvalPith(_, _, _)
EvalPith(pith_expr, value, random_int) ==
    IF pith_expr = PEP_CODE_PITH_ROOT_EXPR THEN value
    ELSE LET pith == EvalPith(pith_expr.items[1], value, random_int)
         IN  IF pith.tag = "list" /\ Len(pith.items) > 0
             THEN pith.items[(random_int % Len(pith.items)) + 1]
             ELSE PyObj("TypeError", 0, <<>>)

\* The evaluation of the boolean expression starting at code[pos]: its value
\* ("T", "F", "E" for an exception, "S" for a syntax error) and the position
\* after it.  An operand that short-circuiting skips is parsed with live
\* false.
RECURSIVE EvalExpr(_, _, _, _, _, _)
RECURSIVE EvalRest(_, _, _, _, _, _, _)
EvalExpr(code, pos, value, random_int, scope, live) ==
    IF pos > Len(code) THEN [res |-> "S", pos |-> pos]
    ELSE IF code[pos].tag = "isinstance"
    THEN LET pith == EvalPith(code[pos].items[1], value, random_int)
             cls  == ResolveName(code[pos].items[2], scope)
         IN  [res |-> IF ~live THEN "F"
                      ELSE IF pith.tag = "TypeError" \/ cls = PyNone THEN "E"
                      ELSE IF IsInstance(pith, cls) THEN "T" ELSE "F",
              pos |-> pos + 1]
    ELSE IF code[pos].tag = "("
    THEN LET first == EvalExpr(code, pos + 1, value, random_int, scope, live)
         IN  EvalRest(code, first.pos, value, random_int, scope, live, first.res)
    ELSE [res |-> "S", pos |-> Len(code) + 1]

EvalRest(code, pos, value, random_int, scope, live, acc) ==
    IF pos > Len(code) THEN [res |-> "S", pos |-> pos]
    ELSE IF code[pos].tag = ")" THEN [res |-> acc, pos |-> pos + 1]
    ELSE IF code[pos].tag \in {"or", "and"}
    THEN LET decided == IF code[pos].tag = "or" THEN acc # "F" ELSE acc # "T"
             rhs == EvalExpr(code, pos + 1, value, random_int, scope, live /\ ~decided)
         IN  EvalRest(code, rhs.pos, value, random_int, scope, live,
                      IF rhs.res = "S" THEN "S" ELSE IF decided THEN acc ELSE rhs.res)
    ELSE [res |-> "S", pos |-> Len(code) + 1]

\* What the code does to the passed object: "accept" when it raises nothing,
\* "reject" when it raises the type-checking exception, "error" otherwise.
Run(func_code, value, random_int, scope) ==
    LET code == func_code.items
        test == EvalExpr(code, 2, value, random_int, scope, TRUE)
    IN  IF Len(code) < 4 \/ code[1].tag # "if not" \/ test.pos # Len(code) - 1
           \/ test.res \in {"E", "S"}
        THEN "error"
        ELSE IF test.res = "T" THEN "accept" ELSE "reject"

\* Whether the object satisfies the hint, the item of a sequence checked
\* being the one __beartype_random_int selects.
RECURSIVE Sat(_, _, _)
Sat(hint, value, random_int) ==
    IF IsHintIgnorable(hint) THEN TRUE
    ELSE IF hint.tag = "Union"
    THEN \E i \in DOMAIN hint.items : Sat(hint.items[i], value, random_int)
    ELSE IF hint.tag = "List"
    THEN /\ IsInstance(value, TypeList)
         /\ \/ IsHintIgnorable(hint.items[1])
            \/ /\ Len(value.items) > 0
               /\ Sat(hint.items[1], value.items[(random_int % Len(value.items)) + 1],
                      random_int)
    ELSE IF hint.tag = "Dict" THEN IsInstance(value, TypeDict)
    ELSE hint.tag = "type" /\ IsInstance(value, hint)

\* The children of a hint that the traversal enqueues when it visits it.
HintChildsEnqueued(hint) ==
    LET UnignorablePep(hint_child) == ~IsHintIgnorable(hint_child) /\ IsHintPep(hint_child)
        Unignorable(hint_child) == ~IsHintIgnorable(hint_child)
    IN  IF hint.tag = "Union" THEN SelectSeq(hint.items, UnignorablePep)
        ELSE IF hint.tag = "List" THEN SelectSeq(hint.items, Unignorable)
        ELSE <<>>

\* The number of work items of the tree of a hint: the root and every child
\* enqueued.
RECURSIVE WorkItems(_)
RECURSIVE WorkItemsOf(_)
WorkItems(hint) == 1 + WorkItemsOf(HintChildsEnqueued(hint))

WorkItemsOf(hints) ==
    IF hints = <<>> THEN 0 ELSE WorkItems(Head(hints)) + WorkItemsOf(Tail(hints))

\* A tree whose every hint the traversal supports.
RECURSIVE IsHintWellFormed(_)
IsHintWellFormed(hint) ==
    IF hint.tag = "Union"
    THEN \A i \in DOMAIN hint.items :
            \/ IsHintIgnorable(hint.items[i])
            \/ IsHintWellFormed(hint.items[i])
    ELSE IF hint.tag = "List"
    THEN IsHintIgnorable(hint.items[1]) \/ IsHintWellFormed(hint.items[1])
    ELSE IF hint.tag = "Dict" THEN TRUE
    ELSE IsTypeIsinstanceable(hint)

----------------------------------------------------------------------------
(* Concurrent callers.  The interpreter switches threads between two       *)
(* bytecodes: every access of a thread to a shared dictionary is a step of *)
(* its own, and what the thread computes on its locals up to its next      *)
(* access belongs to the same step.                                        *)

\* Number of threads calling concurrently.
NumThreads == 2

Threads == 1..NumThreads

\* A thread outside add_func_scope_types(): the func_scope of its compilation
\* and the tuples its calls have registered so far.
ScopeThreadIdle(scope, registered) ==
    [pc |-> "idle", types |-> PyNone, tuple_types_name |-> PyNone,
     func_scope |-> scope, registered |-> registered]

\* What a call has registered: the tuple it coerced its argument into, the
\* tuple it put in its func_scope, the name it returned and whether it
\* assigned the beartypistry key.
Registered(types, attr, name, inserted) ==
    [types |-> types, attr |-> attr, name |-> name, inserted |-> inserted]

\* The calls threads make to add_func_scope_types(): (A, B) as two objects
\* vouched duplicate-free, (B, A) and (A,) with the default is_unique, and an
\* object that is no collection.
RaceTypesCalls ==
    {<<PyObj("tuple", 23, <<TypeA, TypeB>>), TRUE>>,
     <<PyObj("tuple", 24, <<TypeA, TypeB>>), TRUE>>,
     <<PyObj("tuple", 25, <<TypeB, TypeA>>), FALSE>>,
     <<PyObj("tuple", 21, <<TypeA>>), FALSE>>,
     <<NotAType, FALSE>>}

\* The collections add_func_scope_types() looks up in the beartypistry: those
\* it validates and does not hand over to add_func_scope_type().
IsTypesCached(types) ==
    /\ types.tag \in {"tuple", "frozenset"}
    /\ Len(types.items) >= 2
    /\ \A i \in DOMAIN types.items : IsTypeIsinstanceable(types.items[i])

\* A thread calls add_func_scope_types(types, func_scope, is_unique) and runs
\* it up to the test `tuple_types_name not in bear_typistry`, or to its end
\* when the call does not reach that test.
TypesEnter(t, types, is_unique) ==
    /\ threads[t].pc = "idle"
    /\ sc_calls < MaxScopeCalls
    /\ sc_calls' = sc_calls + 1
    /\ LET th      == threads[t]
           whole   == AddFuncScopeTypes(types, th.func_scope, bear_typistry, is_unique,
                                        hash_slot, next_obj)
           coerced == CoerceTypes(types, is_unique, hash_slot, next_obj)
           tuple_types_name == TupleTypesName(coerced)
       IN  IF ~IsTypesCached(types)
           THEN /\ threads' = [threads EXCEPT ![t].func_scope = whole.func_scope]
                /\ UNCHANGED next_obj
           ELSE /\ threads' = [threads EXCEPT
                        ![t].pc = IF DictGet(bear_typistry, tuple_types_name, SENTINEL) = SENTINEL
                                  THEN "insert" ELSE "reuse",
                        ![t].types = coerced,
                        ![t].tuple_types_name = tuple_types_name]
                /\ next_obj' = IF coerced.id = next_obj THEN next_obj + 1 ELSE next_obj
    /\ UNCHANGED <<func_scope, bear_typistry, forwardrefs_class_basename, hash_slot,
                   sc_first, sc_last, cacheVars, compileVars, decorated>>

\* bear_typistry[tuple_types_name] = types, then add_func_scope_attr().
TypesInsert(t) ==
    /\ threads[t].pc = "insert"
    /\ LET th == threads[t]
           typistry == DictSet(bear_typistry, th.tuple_types_name, th.types)
           result == AddFuncScopeAttr(th.types, th.func_scope, typistry)
       IN  /\ bear_typistry' = typistry
           /\ threads' = [threads EXCEPT ![t] =
                  ScopeThreadIdle(result.func_scope,
                      th.registered \cup {Registered(th.types, th.types, result.value, TRUE)})]
    /\ UNCHANGED <<func_scope, forwardrefs_class_basename, hash_slot, next_obj,
                   sc_first, sc_last, sc_calls, cacheVars, compileVars, decorated>>

\* types = bear_typistry[tuple_types_name], then add_func_scope_attr().
TypesReuse(t) ==
    /\ threads[t].pc = "reuse"
    /\ LET th == threads[t]
           types == DictGet(bear_typistry, th.tuple_types_name, SENTINEL)
           result == AddFuncScopeAttr(types, th.func_scope, bear_typistry)
       IN  threads' = [threads EXCEPT ![t] =
               ScopeThreadIdle(result.func_scope,
                   th.registered \cup {Registered(th.types, types, result.value, FALSE)})]
    /\ UNCHANGED <<func_scope, bear_typistry, forwardrefs_class_basename, hash_slot,
                   next_obj, sc_first, sc_last, sc_calls, cacheVars, compileVars, decorated>>

\* Every thread starts a compilation of its own on an empty func_scope.
InitScopeThreads == threads = [t \in Threads |-> ScopeThreadIdle(EmptyDict, {})]

\* No thread is inside a call.
AllThreadsIdle == \A t \in DOMAIN threads : threads[t].pc = "idle"

\* A thread outside the memoized closure.
CacheThreadIdle == [pc |-> "idle", call |-> PyNone, params_flat |-> PyNone, outcome |-> PyNone]

\* The calls threads make to the memoized closure: positional arguments only.
RaceCalls == {call \in Calls : call.kwargs = <<>> /\ Len(call.args) >= 1}

\* The calls started so far.
CallsStarted == Len(cc_log) + Cardinality({t \in DOMAIN threads : threads[t].pc # "idle"})

\* A thread calls the memoized closure, which flattens the parameters and
\* looks them up in params_flat_to_exception.
CacheEnter(t, call) ==
    /\ threads[t].pc = "idle"
    /\ CallsStarted < MaxCalls
    /\ LET params_flat == ParamsFlat(call.args, call.kwargs)
           exception   == DictGet(params_flat_to_exception, params_flat, SENTINEL)
       IN  IF exception # SENTINEL
           THEN /\ cc_log' = Append(cc_log,
                        LogEntry(call, params_flat, "raise", exception, FALSE))
                /\ UNCHANGED threads
           ELSE /\ threads' = [threads EXCEPT ![t] =
                        [CacheThreadIdle EXCEPT !.pc = "get_return_value", !.call = call,
                                                !.params_flat = params_flat]]
                /\ UNCHANGED cc_log
    /\ UNCHANGED <<params_flat_to_return_value, params_flat_to_exception, next_obj,
                   scopeVars, compileVars, decorated>>

\* The closure looks the parameters up in params_flat_to_return_value.
CacheGetReturnValue(t) ==
    /\ threads[t].pc = "get_return_value"
    /\ LET th == threads[t]
           return_value == DictGet(params_flat_to_return_value, th.params_flat, SENTINEL)
       IN  IF return_value # SENTINEL
           THEN /\ cc_log' = Append(cc_log,
                        LogEntry(th.call, th.params_flat, "return", return_value, FALSE))
                /\ threads' = [threads EXCEPT ![t] = CacheThreadIdle]
           ELSE /\ threads' = [threads EXCEPT ![t].pc = "call"]
                /\ UNCHANGED cc_log
    /\ UNCHANGED <<params_flat_to_return_value, params_flat_to_exception, next_obj,
                   scopeVars, compileVars, decorated>>

\* The closure calls the decorated callable.
CacheCallFunc(t) ==
    /\ threads[t].pc = "call"
    /\ threads' = [threads EXCEPT ![t].pc = "store",
                                  ![t].outcome = Func(threads[t].call, next_obj)]
    /\ next_obj' = next_obj + 1
    /\ UNCHANGED <<cacheVars, scopeVars, compileVars, decorated>>

\* The closure caches the value returned or the exception raised and returns
\* or raises it.
CacheStore(t) ==
    /\ threads[t].pc = "store"
    /\ LET th == threads[t]
       IN  /\ cc_log' = Append(cc_log,
                  LogEntry(th.call, th.params_flat, th.outcome.kind, th.outcome.obj, TRUE))
           /\ IF th.outcome.kind = "raise"
              THEN /\ params_flat_to_exception' =
                         DictSet(params_flat_to_exception, th.params_flat, th.outcome.obj)
                   /\ UNCHANGED params_flat_to_return_value
              ELSE /\ params_flat_to_return_value' =
                         DictSet(params_flat_to_return_value, th.params_flat, th.outcome.obj)
                   /\ UNCHANGED params_flat_to_exception
    /\ threads' = [threads EXCEPT ![t] = CacheThreadIdle]
    /\ UNCHANGED <<next_obj, scopeVars, compileVars, decorated>>

\* No thread has called the memoized closure yet.
InitCacheThreads == threads = [t \in Threads |-> CacheThreadIdle]

----------------------------------------------------------------------------
(* Specifications                                                          *)

\* No thread but the caller's: every call runs from its start to its end.
NoThreads == <<>>

InitCache == InitCacheVars /\ InitScopeVars /\ InitCompileVars /\ next_obj = FirstObj
                /\ hash_slot = [cls \in {TypeA, TypeB} |-> 0]
                /\ threads = NoThreads

NextCache ==
    \E call \in Calls :
        CallableCachedCall(call) /\ UNCHANGED <<scopeVars, compileVars, threads, decorated>>

\* The memoized closure called with hashable and with unhashable arguments.
InitCacheUnhashable == InitCache

NextCacheUnhashable ==
    \E call \in PositionalCalls \cup UnhashableCalls :
        CallableCachedCall(call) /\ UNCHANGED <<scopeVars, compileVars, threads, decorated>>

SpecCacheUnhashable == InitCacheUnhashable /\ [][NextCacheUnhashable]_vars

\* Callables of every signature passed to callable_cached().
InitDecorate == InitCache

NextDecorate == \E func_sig \in Signatures : Decorate(func_sig)

SpecDecorate == InitDecorate /\ [][NextDecorate]_vars

SpecCache == InitCache /\ [][NextCache]_vars

InitScope ==
    /\ InitCacheVars /\ InitScopeVars /\ InitCompileVars /\ InitHashSlot
    /\ next_obj = FirstObj
    /\ threads = NoThreads

NextScope ==
    \/ \E cls \in TypeArgs : CallAddFuncScopeType(cls)
    \/ \E call \in TypesCalls(hash_slot) : CallAddFuncScopeTypes(call[1], call[2])
    \/ \E type_or_types \in TypeOrTypesArgs : CallAddFuncScopeTypeOrTypes(type_or_types)
    \/ \E forwardref \in ForwardrefArgs : CallExpressFuncScopeTypeForwardref(forwardref)

SpecScope == InitScope /\ [][NextScope]_vars

\* Only the class A is passed to pep_code_check_hint: the slot of B is fixed.
InitCompile ==
    /\ InitCacheVars /\ InitScopeVars /\ InitCompileVars /\ next_obj = FirstObj
    /\ hash_slot \in {slot \in [{TypeA, TypeB} -> {0, 1}] : slot[TypeB] = 0}
    /\ threads = NoThreads

NextCompile ==
    \/ \E id \in DataIds, hint \in HintArgs : PepCall(id, hint)
    \/ PepVisit
    \/ PepFinish

SpecCompile == InitCompile /\ [][NextCompile]_vars

\* Largest number of calls of pep_code_check_hint followed to their end.
MaxTerminationCalls == 1

\* A call of pep_code_check_hint that has entered its loop keeps running:
\* the interpreter executes the next iteration or the statements after the
\* loop whenever there is one to execute.
InitCompileFair == InitCompile

NextCompileFair ==
    \/ \E id \in DataIds, hint \in HintArgs :
          Len(pep_log) < MaxTerminationCalls /\ PepCall(id, hint)
    \/ PepVisit
    \/ PepFinish

\* ENABLED <<PepVisit>>_vars: an iteration can run while the current index
\* has not passed the last one, and it changes next_obj whatever it does.
PepVisitEnabled ==
    frame.pc = "loop" /\ frame.hints_meta_index_curr <= frame.hints_meta_index_last

\* WF_vars(PepVisit), with ENABLED <<PepVisit>>_vars written as PepVisitEnabled.
FairPepVisit == ([]<>~PepVisitEnabled) \/ ([]<><<PepVisit>>_vars)

SpecCompileFair ==
    InitCompileFair /\ [][NextCompileFair]_vars /\ FairPepVisit /\ WF_vars(PepFinish)

\* Threads calling add_func_scope_types() concurrently on one beartypistry.
\* Compilations of unions under every layout of the hash table of
\* data.set_b: the PEP-compliant children of a union fall in any slots.
UnionHintArgs == {hint \in HintArgs : hint.tag = "Union"}

HashedHints == {HintList(TypeInt), HintList(TypeStr), HintDict}

InitCompileUnion ==
    /\ InitCacheVars /\ InitScopeVars /\ InitCompileVars /\ next_obj = FirstObj
    /\ hash_slot \in [HashedHints -> {0, 1}]
    /\ threads = NoThreads

NextCompileUnion ==
    \/ \E id \in DataIds, hint \in UnionHintArgs : PepCall(id, hint)
    \/ PepVisit
    \/ PepFinish

SpecCompileUnion == InitCompileUnion /\ [][NextCompileUnion]_vars

InitScopeRace ==
    /\ InitCacheVars /\ InitScopeVars /\ InitCompileVars /\ InitHashSlot
    /\ next_obj = FirstObj
    /\ InitScopeThreads

NextScopeRace ==
    \/ \E t \in Threads, call \in RaceTypesCalls : TypesEnter(t, call[1], call[2])
    \/ \E t \in Threads : TypesInsert(t)
    \/ \E t \in Threads : TypesReuse(t)

SpecScopeRace == InitScopeRace /\ [][NextScopeRace]_vars

\* Threads calling one memoized closure concurrently.
InitCacheRace ==
    /\ InitCacheVars /\ InitScopeVars /\ InitCompileVars /\ next_obj = FirstObj
    /\ hash_slot = [cls \in {TypeA, TypeB} |-> 0]
    /\ InitCacheThreads

NextCacheRace ==
    \/ \E t \in Threads, call \in RaceCalls : CacheEnter(t, call)
    \/ \E t \in Threads : CacheGetReturnValue(t)
    \/ \E t \in Threads : CacheCallFunc(t)
    \/ \E t \in Threads : CacheStore(t)

SpecCacheRace == InitCacheRace /\ [][NextCacheRace]_vars

----------------------------------------------------------------------------
----------------------------------------------------------------------------
(* Claims about callable_cached, checked under SpecCache.                   *)

\* C1: once a call of the memoized closure has returned a value, every later
\* call with equal arguments returns that same object and does not call the
\* decorated callable again, whatever calls were made in between.
C1_CacheHitReturnsSameValue ==
    \A i, j \in DOMAIN cc_log :
        (i < j /\ cc_log[i].call = cc_log[j].call /\ cc_log[i].kind = "return")
            => /\ cc_log[j].kind = "return"
               /\ cc_log[j].obj = cc_log[i].obj
               /\ ~cc_log[j].invoked

\* A value returned by the decorated callable is returned again after a call
\* with other arguments came in between.
C1_Witness ==
    /\ Len(cc_log) = 3
    /\ cc_log[1].call = cc_log[3].call
    /\ cc_log[2].call # cc_log[1].call
    /\ ~PyEq(cc_log[2].key, cc_log[1].key)
    /\ cc_log[1].kind = "return" /\ cc_log[1].invoked
    /\ cc_log[2].invoked
    /\ cc_log[3].kind = "return" /\ ~cc_log[3].invoked

\* C2: once a call of the memoized closure has raised an exception, every
\* later call with equal arguments raises that very exception object and does
\* not call the decorated callable again.
C2_CacheReraisesSameException ==
    \A i, j \in DOMAIN cc_log :
        (i < j /\ cc_log[i].call = cc_log[j].call /\ cc_log[i].kind = "raise")
            => /\ cc_log[j].kind = "raise"
               /\ cc_log[j].obj = cc_log[i].obj
               /\ ~cc_log[j].invoked

\* An exception raised by the decorated callable is raised again by a repeat call.
C2_Witness ==
    /\ Len(cc_log) >= 2
    /\ cc_log[1].call = cc_log[2].call
    /\ cc_log[1].kind = "raise" /\ cc_log[1].invoked
    /\ cc_log[2].kind = "raise" /\ ~cc_log[2].invoked

\* C3: two calls are flattened to equal keys only if they pass the same
\* positional arguments, the same keyword names and the same keyword values.
C3_KeyInjective ==
    \A i, j \in DOMAIN cc_log :
        PyEq(cc_log[i].key, cc_log[j].key) => cc_log[i].call = cc_log[j].call

----------------------------------------------------------------------------
(* Claims about the scope registry, checked under SpecScope.               *)

\* C6: a name of the local registry stays bound, by every registry call, to
\* the object it is bound to; no call rebinds a name to another object.
C6_NameStability ==
    [][\A name \in DOMAIN func_scope :
           /\ name \in DOMAIN func_scope'
           /\ func_scope'[name] = func_scope[name]]_vars

\* A registry holding a class, a tuple and the beartypistry, after a call
\* that came upon a name added before.
C6_Witness ==
    /\ Cardinality(DOMAIN func_scope) >= 2
    /\ sc_last.kind = "return"
    /\ sc_last.first # SENTINEL
    /\ sc_last.value \in DOMAIN func_scope

\* A step of add_func_scope_type() that returns for a class that is not builtin.
AddTypeReturns ==
    /\ sc_calls' = sc_calls + 1
    /\ sc_last'.op = "add_func_scope_type"
    /\ sc_last'.kind = "return"
    /\ ~IsTypeBuiltin(sc_last'.arg)

\* C7: add_func_scope_type() called again with a class that is not builtin
\* returns the name it returned before and adds no entry, and the registry
\* maps the name to that very class.
C7_ClassDedup ==
    [][AddTypeReturns =>
          /\ DictGet(func_scope', sc_last'.value, SENTINEL) = sc_last'.arg
          /\ sc_last'.first # SENTINEL =>
                 /\ sc_last'.value = sc_last'.first
                 /\ func_scope' = func_scope]_vars

\* add_func_scope_type() was called a second time with the class A.
C7_Witness ==
    /\ sc_last.op = "add_func_scope_type"
    /\ sc_last.arg = TypeA
    /\ sc_last.kind = "return"
    /\ sc_last.first = sc_last.value
    /\ sc_last.first # SENTINEL

\* C8: add_func_scope_types() called with a collection of two or more classes
\* that is equal to one passed before returns the name it returned before.
C8_TuplesDedup ==
    (/\ sc_last.op = "add_func_scope_types"
     /\ sc_last.kind = "return"
     /\ ~sc_last.is_unique
     /\ Len(sc_last.arg.items) >= 2
     /\ sc_last.first # SENTINEL)
        => sc_last.value = sc_last.first

\* A step of add_func_scope_type() called with a builtin class.
AddTypeBuiltin ==
    /\ sc_calls' = sc_calls + 1
    /\ sc_last'.op = "add_func_scope_type"
    /\ IsTypeBuiltin(sc_last'.arg)

\* C9: add_func_scope_type() called with a builtin class returns the basename
\* of the class, changes neither the local registry nor the beartypistry, and
\* the basename is no key of the registry.
C9_BuiltinShortcut ==
    [][AddTypeBuiltin =>
          /\ sc_last'.kind = "return"
          /\ sc_last'.value = GetObjectTypeBasename(sc_last'.arg)
          /\ func_scope' = func_scope
          /\ bear_typistry' = bear_typistry
          /\ DictGet(func_scope', sc_last'.value, SENTINEL) = SENTINEL]_vars

\* add_func_scope_type() was called with list on a registry that is not empty.
C9_Witness ==
    /\ sc_last.op = "add_func_scope_type"
    /\ sc_last.arg = TypeList
    /\ sc_last.kind = "return"
    /\ sc_last.value = GetObjectTypeBasename(TypeList)
    /\ func_scope # EmptyDict
    /\ bear_typistry # EmptyDict

----------------------------------------------------------------------------
(* Claims about pep_code_check_hint, checked under SpecCompile.            *)

\* The code returned for a union none of whose children is ignorable.
UnionReturned(entry) ==
    /\ entry.kind = "return"
    /\ entry.hint.tag = "Union"
    /\ \A i \in DOMAIN entry.hint.items : ~IsHintIgnorable(entry.hint.items[i])

\* C4: the code compiled for a union accepts an object if and only if the
\* object satisfies at least one child of the union.
C4_UnionSemantics ==
    \A n \in DOMAIN pep_log :
        UnionReturned(pep_log[n]) =>
            \A value \in Candidates, random_int \in RandomInts :
                Run(pep_log[n].obj, value, random_int, func_scope) = "accept"
                    <=> \E i \in DOMAIN pep_log[n].hint.items :
                            Sat(pep_log[n].hint.items[i], value, random_int)

\* C5: a second call with the same data and an equal hint (the same object
\* or another one) returns the very code of the first call from the cache,
\* without entering pep_code_check_hint.
C5_CompileIdempotent ==
    \A m, n \in DOMAIN pep_log :
        (/\ m < n
         /\ pep_log[m].data = pep_log[n].data
         /\ PyEq(pep_log[m].hint, pep_log[n].hint)
         /\ pep_log[m].kind = "return")
            => /\ pep_log[n].kind = "return"
               /\ pep_log[n].obj = pep_log[m].obj
               /\ ~pep_log[n].invoked

\* A union is compiled, then an equal union that is another object is
\* passed with the same data.
C5_Witness ==
    /\ Len(pep_log) = 2
    /\ pep_log[1].data = pep_log[2].data
    /\ pep_log[1].hint # pep_log[2].hint
    /\ PyEq(pep_log[1].hint, pep_log[2].hint)
    /\ pep_log[1].kind = "return"
    /\ pep_log[1].invoked

IsCapacityError(entry) ==
    /\ entry.kind = "raise"
    /\ entry.obj.tag = ExceptionCapacity.tag
    /\ entry.obj.items = ExceptionCapacity.items

IsPlaceholder(token) == token.tag = "@{}!"

\* C10: a traversal raises the capacity error exactly when the root and the
\* children it has to enqueue are more than SIZE_BIG (for a tree of supported
\* hints: exactly when the tree has more than SIZE_BIG work items); it never
\* writes the work queue at an index >= SIZE_BIG; and the code it returns has
\* every work item of the tree resolved.
C10_CapacityBound ==
    /\ frame.written \subseteq HintsMetaIndices
    /\ \A n \in DOMAIN pep_log :
          pep_log[n].invoked =>
              /\ IsCapacityError(pep_log[n]) <=> pep_log[n].needed > SIZE_BIG
              /\ pep_log[n].written \subseteq HintsMetaIndices
              /\ IsHintWellFormed(pep_log[n].hint) =>
                    (IsCapacityError(pep_log[n]) <=> WorkItems(pep_log[n].hint) > SIZE_BIG)
              /\ pep_log[n].kind = "return" =>
                    /\ pep_log[n].resolved = WorkItems(pep_log[n].hint)
                    /\ pep_log[n].written = 0..(WorkItems(pep_log[n].hint) - 1)
                    /\ \A i \in DOMAIN pep_log[n].obj.items :
                          ~IsPlaceholder(pep_log[n].obj.items[i])

\* One traversal fills the work queue and returns, another one needs one
\* more slot and raises the capacity error.
C10_Witness ==
    \E m, n \in DOMAIN pep_log :
        /\ pep_log[m].kind = "return"
        /\ pep_log[m].invoked
        /\ pep_log[m].written = HintsMetaIndices
        /\ IsCapacityError(pep_log[n])
        /\ pep_log[n].invoked
        /\ WorkItems(pep_log[n].hint) = SIZE_BIG + 1

\* C11: the code pep_code_check_hint returns holds no placeholder of a hint,
\* the root's or a child's; the one substring left to replace is the
\* placeholder of the name of the root pith.
C11_PlaceholdersResolved ==
    \A n \in DOMAIN pep_log :
        pep_log[n].kind = "return" =>
            /\ \A i \in DOMAIN pep_log[n].obj.items : ~IsPlaceholder(pep_log[n].obj.items[i])
            /\ Cardinality({i \in DOMAIN pep_log[n].obj.items :
                                <<pep_log[n].obj.items[i]>> = PITH_ROOT_NAME_PLACEHOLDER_STR}) = 1

\* A traversal that enqueued two children returns.
C11_Witness ==
    \E n \in DOMAIN pep_log :
        /\ pep_log[n].kind = "return"
        /\ pep_log[n].invoked
        /\ pep_log[n].resolved = 3

----------------------------------------------------------------------------
(* More claims about the scope registry, checked under SpecScope.          *)

\* C12: the beartypistry is append-only: no step removes one of its keys or
\* binds one of its keys to another object.
C12_TypistryAppendOnly ==
    [][\A name \in DOMAIN bear_typistry :
          /\ name \in DOMAIN bear_typistry'
          /\ bear_typistry'[name] = bear_typistry[name]]_vars

\* A tuple is passed whose key the beartypistry already binds to another
\* tuple object.
C12_Witness ==
    /\ sc_last.op = "add_func_scope_types"
    /\ sc_last.kind = "return"
    /\ sc_last.is_unique
    /\ TupleTypesName(sc_last.arg) \in DOMAIN bear_typistry
    /\ bear_typistry[TupleTypesName(sc_last.arg)] # sc_last.arg

----------------------------------------------------------------------------
(* Claims about concurrent registration, checked under SpecScopeRace.      *)

\* C13: once every concurrent call of add_func_scope_types() has completed,
\* the beartypistry holds, for every tuple a call registered, an entry under
\* the key made of that tuple's hash whose value is equal to the tuple, and
\* no other entry holds an equal tuple: concurrent insertions of equal tuples
\* leave one entry.
C13_ConcurrentRegistration ==
    AllThreadsIdle =>
        \A t \in DOMAIN threads : \A r \in threads[t].registered :
            /\ TupleTypesName(r.types) \in DOMAIN bear_typistry
            /\ PyEq(bear_typistry[TupleTypesName(r.types)], r.types)
            /\ Cardinality({name \in DOMAIN bear_typistry :
                                PyEq(bear_typistry[name], r.types)}) = 1

\* Two threads have both assigned the key of equal tuples that are two
\* objects, and every call has completed.
C13_Witness ==
    /\ AllThreadsIdle
    /\ \E t1, t2 \in DOMAIN threads :
          /\ t1 # t2
          /\ \E r1 \in threads[t1].registered, r2 \in threads[t2].registered :
                /\ r1.inserted /\ r2.inserted
                /\ PyEq(r1.types, r2.types)
                /\ r1.types # r2.types

----------------------------------------------------------------------------
(* Claims about concurrent memoization, checked under SpecCacheRace.       *)

\* C14: of the concurrent calls made to the memoized closure with the same
\* arguments, at most one calls the decorated callable and all return the
\* same object or raise the same exception; once every call has completed,
\* the cache holds one entry for their key.
C14_ConcurrentMemoization ==
    /\ \A i, j \in DOMAIN cc_log :
          (i < j /\ cc_log[i].call = cc_log[j].call)
              => /\ ~(cc_log[i].invoked /\ cc_log[j].invoked)
                 /\ cc_log[i].kind = cc_log[j].kind
                 /\ cc_log[i].obj = cc_log[j].obj
    /\ AllThreadsIdle =>
          \A i \in DOMAIN cc_log :
              Cardinality({k \in DOMAIN params_flat_to_return_value : PyEq(k, cc_log[i].key)})
                + Cardinality({k \in DOMAIN params_flat_to_exception : PyEq(k, cc_log[i].key)})
                = 1

----------------------------------------------------------------------------
(* More claims about pep_code_check_hint, checked under SpecCompile.       *)

\* A union of two or more classes, none of them ignorable, and of nothing
\* else.
IsUnionOfTypes(hint) ==
    /\ hint.tag = "Union"
    /\ Len(hint.items) >= 2
    /\ \A i \in DOMAIN hint.items : hint.items[i].tag = "type" /\ ~IsHintIgnorable(hint.items[i])

\* The isinstance() tests of a code.
IsinstanceTests(code) == SelectSeq(code, LAMBDA token : token.tag = "isinstance")

\* C15: the code compiled for a union of N >= 2 classes holds one
\* isinstance() test, against a tuple whose items are those N classes and no
\* other, and the traversal enqueues no child of the union: the root is the
\* one hint it visits.
C15_UnionShortCircuit ==
    \A n \in DOMAIN pep_log :
        (pep_log[n].kind = "return" /\ pep_log[n].invoked /\ IsUnionOfTypes(pep_log[n].hint))
            => LET tests == IsinstanceTests(pep_log[n].obj.items)
               IN  /\ Len(tests) = 1
                   /\ tests[1].items[1] = PEP_CODE_PITH_ROOT_EXPR
                   /\ ResolveName(tests[1].items[2], func_scope).tag = "tuple"
                   /\ Range(ResolveName(tests[1].items[2], func_scope).items)
                        = Range(pep_log[n].hint.items)
                   /\ Len(ResolveName(tests[1].items[2], func_scope).items)
                        = Len(pep_log[n].hint.items)
                   /\ pep_log[n].written = {0}
                   /\ pep_log[n].resolved = 1

\* The union of the classes A, int and str has been compiled.
C15_Witness ==
    \E n \in DOMAIN pep_log :
        /\ pep_log[n].kind = "return" /\ pep_log[n].invoked
        /\ IsUnionOfTypes(pep_log[n].hint)
        /\ Len(pep_log[n].hint.items) = 3

\* A standard sequence subscripted by a child that is not ignorable.
IsSequenceOfUnignorable(hint) ==
    hint.tag \in TYPING_ATTRS_SEQUENCE_STANDARD /\ ~IsHintIgnorable(hint.items[1])

\* The item of a sequence that __beartype_random_int selects.
SampledItem(value, random_int) == value.items[(random_int % Len(value.items)) + 1]

\* C16: the code compiled for a standard sequence whose child is not
\* ignorable accepts an object only if the object is an instance of the
\* origin class and its sampled item satisfies the child; it rejects every
\* object that is no instance of the origin class, without testing an item
\* of it.
C16_ContainerSemantics ==
    \A n \in DOMAIN pep_log :
        (pep_log[n].kind = "return" /\ IsSequenceOfUnignorable(pep_log[n].hint))
            => \A value \in Candidates, random_int \in RandomInts :
                  LET origin == GetHintTypeOriginOrNone(GetHintPepTypingAttr(pep_log[n].hint))
                      ran == Run(pep_log[n].obj, value, random_int, func_scope)
                  IN  /\ ran = "accept" =>
                            /\ IsInstance(value, origin)
                            /\ Len(value.items) > 0
                            /\ Sat(pep_log[n].hint.items[1], SampledItem(value, random_int),
                                   random_int)
                      /\ ~IsInstance(value, origin) => ran = "reject"

\* The code tests an item of a sequence selected by __beartype_random_int.
HasSampledItemTest(code) ==
    \E i \in DOMAIN code :
        /\ code[i].tag = "isinstance"
        /\ code[i].items[1].tag
             = PEP_CODE_CHECK_HINT_SEQUENCE_STANDARD_PITH_CHILD_EXPR(PEP_CODE_PITH_ROOT_EXPR).tag

\* The last call of pep_code_check_hint has just returned.
JustReturned ==
    /\ frame.pc = "idle"
    /\ pep_log # <<>>
    /\ pep_log[Len(pep_log)].kind = "return"

\* C17: when pep_code_check_hint(data, hint) returns a code that tests a
\* sampled item of a sequence, out of the function or out of the cache of the
\* memoized closure, data.is_func_wrapper_needs_random_int is true.
C17_SamplingFlag ==
    (JustReturned /\ HasSampledItemTest(pep_log[Len(pep_log)].obj.items))
        => data[pep_log[Len(pep_log)].data].is_func_wrapper_needs_random_int

\* A code testing a sampled item has just been returned out of the cache.
C17_Witness ==
    /\ JustReturned
    /\ HasSampledItemTest(pep_log[Len(pep_log)].obj.items)
    /\ ~pep_log[Len(pep_log)].invoked

\* A forward reference: the name of a class, as a string.
IsForwardRef(hint) == hint.tag = "str"

\* The code of the root hint is the one test isinstance(pith, hint_curr_expr).
IsOneTest(code, pith_curr_expr, hint_curr_expr) ==
    IsinstanceTests(code) = PEP_CODE_CHECK_HINT_NONPEP_TYPE(pith_curr_expr, hint_curr_expr)

\* C18: for a hint that is a class, pep_code_check_hint returns a code whose
\* one test is isinstance() against the name add_func_scope_type() returns
\* for the class (for int: the name int, nothing being registered); for a
\* hint that is a forward reference, it returns a code whose one test is
\* isinstance() against the expression express_func_scope_type_forwardref()
\* returns for the reference.
C18_LeafNodes ==
    \A n \in DOMAIN pep_log :
        LET hint == pep_log[n].hint
        IN  /\ (hint.tag = "type" /\ IsTypeIsinstanceable(hint)) =>
                  /\ pep_log[n].kind = "return"
                  /\ IsOneTest(pep_log[n].obj.items, PEP_CODE_PITH_ROOT_EXPR,
                               AddFuncScopeType(hint, func_scope, bear_typistry).value)
                  /\ IsTypeBuiltin(hint) =>
                        /\ IsOneTest(pep_log[n].obj.items, PEP_CODE_PITH_ROOT_EXPR,
                                     GetObjectTypeBasename(hint))
                        /\ (Len(pep_log) = 1 /\ frame.pc = "idle") => func_scope = EmptyDict
            /\ IsForwardRef(hint) =>
                  /\ pep_log[n].kind = "return"
                  /\ IsOneTest(pep_log[n].obj.items, PEP_CODE_PITH_ROOT_EXPR,
                               ExpressFuncScopeTypeForwardref(
                                   hint, forwardrefs_class_basename, func_scope).value)

\* The hint is neither PEP-compliant nor a class.
IsHintMalformed(hint) == ~IsHintPep(hint) /\ hint.tag # "type"

\* The traversal of the hint meets a malformed hint: the root, or a child of
\* a union or of a standard sequence that is not ignorable.
RECURSIVE HasMalformedHint(_)
HasMalformedHint(hint) ==
    \/ IsHintMalformed(hint)
    \/ /\ hint.tag \in {"Union"} \cup TYPING_ATTRS_SEQUENCE_STANDARD
       /\ \E i \in DOMAIN hint.items :
             ~IsHintIgnorable(hint.items[i]) /\ HasMalformedHint(hint.items[i])

\* The exceptions of beartype.roar raised while a hint is compiled.
IsCompilerError(obj) ==
    obj.tag \in {"BeartypeDecorHintPepException", "BeartypeDecorHintNonpepException",
                 "BeartypeDecorHintPep3119Exception"}

\* C19: a call of pep_code_check_hint whose hint holds a malformed hint, as
\* the root or as a child the traversal meets, raises an exception of
\* beartype and returns no code; a later call with the same data and an equal
\* hint raises that same exception object again without entering the
\* function.
C19_MalformedInput ==
    \A n \in DOMAIN pep_log :
        HasMalformedHint(pep_log[n].hint) =>
            /\ pep_log[n].kind = "raise"
            /\ IsCompilerError(pep_log[n].obj)
            /\ \A m \in 1..(n - 1) :
                  (pep_log[m].data = pep_log[n].data /\ PyEq(pep_log[m].hint, pep_log[n].hint))
                      => pep_log[n].obj = pep_log[m].obj /\ ~pep_log[n].invoked

\* A sequence whose child is malformed has been passed twice with the same
\* data.
C19_Witness ==
    \E m, n \in DOMAIN pep_log :
        /\ m < n
        /\ pep_log[m].data = pep_log[n].data
        /\ pep_log[m].hint = pep_log[n].hint
        /\ pep_log[m].hint.tag \in TYPING_ATTRS_SEQUENCE_STANDARD
        /\ IsHintMalformed(pep_log[m].hint.items[1])
        /\ pep_log[m].invoked
        /\ pep_log[m].resolved = 1

----------------------------------------------------------------------------
(* Claims about the errors of the scope registry, checked under SpecScope. *)

\* The exceptions the registry raises for an argument it does not accept.
IsValidationError(obj) ==
    obj.tag \in {"BeartypeDecorHintNonpepException", "BeartypeDecorHintPep3119Exception",
                 "BeartypeDecorHintForwardRefException"}

\* C20: a call of add_func_scope_type(), add_func_scope_types(),
\* add_func_scope_type_or_types() or express_func_scope_type_forwardref()
\* that raises a validation error leaves func_scope, the set of relative
\* forward references and the beartypistry as they were before the call.
C20_ValidationAtomic ==
    [][(sc_calls' = sc_calls + 1 /\ sc_last'.kind = "raise" /\ IsValidationError(sc_last'.value))
          => /\ func_scope' = func_scope
             /\ forwardrefs_class_basename' = forwardrefs_class_basename
             /\ bear_typistry' = bear_typistry]_vars

\* A tuple holding a class that is not isinstanceable has been refused after
\* the scope, the set of relative forward references and the beartypistry
\* were filled.
C20_Witness ==
    /\ sc_last.op = "add_func_scope_types"
    /\ sc_last.kind = "raise"
    /\ IsValidationError(sc_last.value)
    /\ Len(sc_last.arg.items) >= 2
    /\ func_scope # EmptyDict
    /\ bear_typistry # EmptyDict

----------------------------------------------------------------------------
(* Claims about the collections and the forward references passed to the   *)
(* scope registry, checked under SpecScope.                                *)

\* The step is a call of add_func_scope_types() on a set or a tuple of len
\* items.
IsTypesCallOfLen(last, len) ==
    /\ last.op = "add_func_scope_types"
    /\ last.arg.tag \in {"tuple", "frozenset"}
    /\ Len(last.arg.items) = len

C22_CanonicalTuple ==
    (/\ IsTypesCallOfLen(sc_last, Len(sc_last.arg.items))
     /\ Len(sc_last.arg.items) >= 2
     /\ ~sc_last.is_unique
     /\ sc_last.kind = "return")
        => LET registered == DictGet(func_scope, sc_last.value, SENTINEL)
           IN  /\ registered.tag = "tuple"
               /\ Range(registered.items) = Range(sc_last.arg.items)
               /\ Len(registered.items) = Cardinality(Range(registered.items))

\* The tuple (A, A) has been registered as the tuple (A,) while the
\* beartypistry held another tuple.
C22_Witness ==
    /\ IsTypesCallOfLen(sc_last, 2)
    /\ ~sc_last.is_unique
    /\ sc_last.kind = "return"
    /\ Cardinality(Range(sc_last.arg.items)) = 1
    /\ DictGet(func_scope, sc_last.value, SENTINEL).items = <<TypeA>>
    /\ Cardinality(DOMAIN bear_typistry) = 2

\* The classname holds a ".": it is fully-qualified.
IsQualified(forwardref) == forwardref.tag = "str" /\ Len(forwardref.items) > 0

\* The classname holds no ".": it is relative to the module of the callable.
IsUnqualified(forwardref) == forwardref.tag = "str" /\ Len(forwardref.items) = 0

\* The step is a call of express_func_scope_type_forwardref().
IsForwardrefCall(calls, calls_next, last) ==
    calls_next = calls + 1 /\ last.op = "express_func_scope_type_forwardref"

\* C23: express_func_scope_type_forwardref() called on a fully-qualified
\* classname binds the beartypistry to the name __beartypistry in the scope,
\* returns the expression looking that classname up in the beartypistry and
\* returns the set of relative names it was passed as it was: None stays
\* None and a set keeps its names.
C23_QualifiedForwardref ==
    [][(IsForwardrefCall(sc_calls, sc_calls', sc_last') /\ IsQualified(sc_last'.arg))
          => /\ sc_last'.kind = "return"
             /\ DictGet(func_scope', ARG_NAME_TYPISTRY, SENTINEL) = BearTypistryRef
             /\ sc_last'.value.tag = "expr_typistry_item"
             /\ sc_last'.value.items = <<sc_last'.arg>>
             /\ forwardrefs_class_basename' = forwardrefs_class_basename]_vars

\* A fully-qualified classname has been expressed after a relative one.
C23_Witness ==
    /\ sc_last.op = "express_func_scope_type_forwardref"
    /\ IsQualified(sc_last.arg)
    /\ sc_last.kind = "return"
    /\ ~forwardrefs_class_basename.is_none
    /\ forwardrefs_class_basename.names # {}

\* C24: express_func_scope_type_forwardref() called on an unqualified
\* classname returns a set holding that classname and every classname of the
\* set it was passed (the classname alone when it was passed None), returns
\* the placeholder expression holding that classname and leaves the scope as
\* it was.
C24_UnqualifiedForwardref ==
    [][(IsForwardrefCall(sc_calls, sc_calls', sc_last') /\ IsUnqualified(sc_last'.arg))
          => /\ sc_last'.kind = "return"
             /\ ~forwardrefs_class_basename'.is_none
             /\ sc_last'.arg \in forwardrefs_class_basename'.names
             /\ forwardrefs_class_basename.names \subseteq forwardrefs_class_basename'.names
             /\ forwardrefs_class_basename.is_none
                   => forwardrefs_class_basename'.names = {sc_last'.arg}
             /\ sc_last'.value.tag = "expr_basename_placeholder"
             /\ sc_last'.value.items = <<sc_last'.arg>>
             /\ func_scope' = func_scope]_vars

\* A second unqualified classname has been expressed in a scope that holds a
\* class.
C24_Witness ==
    /\ sc_last.op = "express_func_scope_type_forwardref"
    /\ IsUnqualified(sc_last.arg)
    /\ sc_last.kind = "return"
    /\ Cardinality(forwardrefs_class_basename.names) = 2
    /\ func_scope # EmptyDict

----------------------------------------------------------------------------
(* Claims about the errors and the work items of pep_code_check_hint,      *)
(* checked under SpecCompile.                                              *)

\* The message of the exception holds EXCEPTION_CACHED_PLACEHOLDER.
HasCachedPlaceholder(exception) ==
    \E i \in DOMAIN exception.items : exception.items[i] = EXCEPTION_CACHED_PLACEHOLDER

\* C25: the message of every exception pep_code_check_hint raises to its
\* caller holds the substring EXCEPTION_CACHED_PLACEHOLDER.
C25_DeferredLabel ==
    \A n \in DOMAIN pep_log :
        pep_log[n].kind = "raise" => HasCachedPlaceholder(pep_log[n].obj)

----------------------------------------------------------------------------
(* Claims about the construction of a memoized closure, checked under      *)
(* SpecDecorate.                                                           *)

\* The signature declares *args or **kwargs.
IsVariadic(func_sig) ==
    \E i \in DOMAIN func_sig : func_sig[i] \in {"VAR_POSITIONAL", "VAR_KEYWORD"}

\* C26: callable_cached() raises its exception, and creates neither the
\* closure nor its dictionaries, if and only if the decorated callable
\* declares a variadic positional or a variadic keyword parameter.
C26_VariadicRejection ==
    \A n \in DOMAIN decorated :
        LET entry == decorated[n]
            rejected == /\ entry.kind = "raise"
                        /\ entry.obj.tag = "_BeartypeCallableCachedException"
                        /\ entry.dicts = <<>>
            wrapped  == /\ entry.kind = "return"
                        /\ entry.obj.tag = "function"
                        /\ Len(entry.dicts) = 2
        IN  /\ IsVariadic(entry.sig) <=> rejected
            /\ ~IsVariadic(entry.sig) <=> wrapped

\* A callable with **kwargs after a supported parameter has been rejected and
\* a callable with a keyword-only parameter has been wrapped.
C26_Witness ==
    /\ Len(decorated) = 2
    /\ decorated[1].sig = <<"POSITIONAL_OR_KEYWORD", "VAR_KEYWORD">>
    /\ decorated[1].kind = "raise" /\ decorated[1].param = 2
    /\ decorated[2].sig = <<"POSITIONAL_OR_KEYWORD", "KEYWORD_ONLY">>
    /\ decorated[2].kind = "return"

----------------------------------------------------------------------------
(* Claims about unhashable arguments, checked under SpecCacheUnhashable.   *)

\* The call passes an unhashable object, positionally or by keyword.
HasUnhashableArg(call) ==
    \/ \E i \in DOMAIN call.args : ~IsHashable(call.args[i])
    \/ \E i \in DOMAIN call.kwargs : ~IsHashable(call.kwargs[i].value)

\* C27: a call of the memoized closure that passes an unhashable argument
\* raises TypeError without calling the decorated callable and leaves the
\* dictionary of the returned values and the dictionary of the exceptions as
\* they were.
C27_UnhashableArguments ==
    [][(Len(cc_log') = Len(cc_log) + 1 /\ HasUnhashableArg(cc_log'[Len(cc_log')].call))
          => /\ cc_log'[Len(cc_log')].kind = "raise"
             /\ cc_log'[Len(cc_log')].obj.tag = "TypeError"
             /\ ~cc_log'[Len(cc_log')].invoked
             /\ params_flat_to_return_value' = params_flat_to_return_value
             /\ params_flat_to_exception' = params_flat_to_exception]_vars

\* After a value and an exception have been cached, a call passing a tuple
\* that holds a list has raised TypeError.
C27_Witness ==
    /\ Len(cc_log) = 3
    /\ cc_log[3].call.args = <<PyInt(1), PyTuple(<<PyInt(1), PyObj("list", 0, <<>>)>>)>>
    /\ cc_log[3].kind = "raise" /\ cc_log[3].obj.tag = "TypeError"
    /\ params_flat_to_return_value # EmptyDict
    /\ params_flat_to_exception # EmptyDict

----------------------------------------------------------------------------
(* Claims about the work queue of pep_code_check_hint, checked under       *)
(* SpecCompile.                                                            *)

\* The indices of the work items dequeued by a call that has ended: the loop
\* had dequeued the item it raised on.
Dequeued(entry) ==
    IF entry.kind = "raise" THEN 0..entry.resolved ELSE 0..(entry.resolved - 1)

\* The placeholder of the work item occurs in the code.
IsPlaceholderIn(hint_meta, func_code) ==
    \E k \in DOMAIN func_code : <<func_code[k]>> = HintMetaPlaceholder(hint_meta)

\* The work queue while the loop runs: the items before the current index
\* have been released, the items from the current to the last index wait
\* with their placeholders in the code, and no item lies past the last index.
WorkQueueInOrder ==
    frame.pc = "loop" =>
        /\ frame.written = 0..frame.hints_meta_index_last
        /\ \A i \in HintsMetaIndices :
              IF i < frame.hints_meta_index_curr \/ i > frame.hints_meta_index_last
              THEN frame.hints_meta[i] = PyNone
              ELSE /\ frame.hints_meta[i] # PyNone
                   /\ IsPlaceholderIn(frame.hints_meta[i], frame.func_code)

\* An iteration of the loop dequeues the item at the current index, moves
\* that index by one and leaves the waiting items where they are.
WorkQueueStep ==
    (frame.pc = "loop" /\ frame'.pc = "loop" /\ frame' # frame)
        => /\ frame'.hints_meta_index_curr = frame.hints_meta_index_curr + 1
           /\ frame'.hints_meta_index_last >= frame.hints_meta_index_last
           /\ \A i \in HintsMetaIndices :
                 (i > frame.hints_meta_index_curr /\ i <= frame.hints_meta_index_last)
                     => frame'.hints_meta[i] = frame.hints_meta[i]

\* C28 as stated: in every call of pep_code_check_hint that has ended, every
\* work item that was enqueued has been dequeued.
C28_WorkItemLifecycle_Original ==
    \A n \in DOMAIN pep_log :
        pep_log[n].invoked => pep_log[n].written \subseteq Dequeued(pep_log[n])

\* C28: work items are dequeued in the order they were enqueued, each at most
\* once and with its placeholder in the code, and a released item is never
\* visited again; a call that returns code has dequeued every item it
\* enqueued.
C28_WorkItemLifecycle ==
    /\ [](WorkQueueInOrder)
    /\ [][WorkQueueStep]_vars
    /\ [](\A n \in DOMAIN pep_log :
             (pep_log[n].invoked /\ pep_log[n].kind = "return")
                 => pep_log[n].written = Dequeued(pep_log[n]))

\* A call has returned code after dequeuing four work items, and a call has
\* raised on its second work item while a third one was waiting.
C28_Witness ==
    /\ \E n \in DOMAIN pep_log :
          /\ pep_log[n].invoked /\ pep_log[n].kind = "return"
          /\ pep_log[n].written = 0..3
    /\ \E n \in DOMAIN pep_log :
          /\ pep_log[n].invoked /\ pep_log[n].kind = "raise"
          /\ pep_log[n].resolved = 1
          /\ 2 \in pep_log[n].written

----------------------------------------------------------------------------
(* Claims about the termination of pep_code_check_hint, checked under      *)
(* SpecCompileFair.                                                        *)

\* C29: a call of pep_code_check_hint that has entered its loop eventually
\* leaves it, returning code or raising an exception; while it runs the last
\* index stays below SIZE_BIG and the current index goes at most one past
\* the last, and a hint too large for the work queue ends in the exception
\* of the capacity test, never in an IndexError of the work queue.
C29_Termination ==
    /\ (frame.pc = "loop") ~> (frame.pc = "idle" /\ Len(pep_log) > 0)
    /\ [](frame.pc = "loop" =>
             /\ frame.hints_meta_index_last < SIZE_BIG
             /\ frame.hints_meta_index_curr <= frame.hints_meta_index_last + 1)
    /\ [](\A n \in DOMAIN pep_log : pep_log[n].obj.tag # ExceptionIndex.tag)

\* A call on a hint nested deeper than the work queue is long has ended in
\* the exception of the capacity test.
C29_Witness ==
    /\ frame.pc = "idle"
    /\ Len(pep_log) > 0
    /\ pep_log[Len(pep_log)].invoked
    /\ pep_log[Len(pep_log)].kind = "raise"
    /\ pep_log[Len(pep_log)].obj.items = ExceptionCapacity.items
    /\ pep_log[Len(pep_log)].resolved = SIZE_BIG - 1

----------------------------------------------------------------------------
(* Claims about the code pep_code_check_hint returns, checked under        *)
(* SpecCompile.                                                            *)

\* The loop of the call ran to its end: every enqueued hint was visited.
IsTraversalEnded(entry) ==
    entry.invoked /\ entry.resolved = Cardinality(entry.written)

\* C30: a call of pep_code_check_hint whose loop ran to its end without
\* generating any test for the root hint raises the BeartypeDecorHintPepException
\* "not type-checked" and returns no code: no returned code is without test.
C30_NoCodeRoot ==
    \A n \in DOMAIN pep_log :
        IsTraversalEnded(pep_log[n]) =>
            \/ /\ pep_log[n].kind = "return"
               /\ IsinstanceTests(pep_log[n].obj.items) # <<>>
            \/ /\ pep_log[n].kind = "raise"
               /\ pep_log[n].obj.items = ExceptionNotChecked.items

(***************************************************************************)
(* Claims about the capacity error of pep_code_check_hint, checked under   *)
(* SpecCompile.                                                            *)
(***************************************************************************)
\* The numbers formatted into the message of an exception.
MessageNumbers(exception) ==
    {exception.items[i].id : i \in {j \in DOMAIN exception.items :
                                        exception.items[j].tag = "contains more than {} typing types"}}

\* C31: the capacity error pep_code_check_hint raises on overflow reports both
\* the number of hints that were found (the number the work queue would have
\* to hold) and the capacity SIZE_BIG.
C31_CapacityErrorContent ==
    \A n \in DOMAIN pep_log :
        (pep_log[n].invoked /\ IsCapacityError(pep_log[n])) =>
            /\ SIZE_BIG \in MessageNumbers(pep_log[n].obj)
            /\ pep_log[n].needed \in MessageNumbers(pep_log[n].obj)

(***************************************************************************)
(* Claims about the code of a union, checked under SpecCompileUnion.       *)
(***************************************************************************)
\* The work item the loop is about to visit.
HintCurrMeta == frame.hints_meta[frame.hints_meta_index_curr]

\* An iteration that visits a union and raises nothing.
IsUnionStep ==
    /\ frame.pc = "loop" /\ frame'.pc = "loop"
    /\ frame'.hints_meta_index_curr = frame.hints_meta_index_curr + 1
    /\ HintMetaHint(HintCurrMeta).tag = "Union"

\* The index of the first occurrence of a token in code, or 0.
IndexOf(code, token) ==
    IF \E k \in DOMAIN code : code[k] = token
    THEN CHOOSE k \in DOMAIN code : code[k] = token /\ \A j \in 1..(k - 1) : code[j] # token
    ELSE 0

\* The code an iteration has put in the place of the placeholder of the item
\* it visited.
FragmentOf(func_code, func_code_next, placeholder) ==
    LET at == IndexOf(func_code, placeholder[1])
    IN  SubSeq(func_code_next, at, at + Len(func_code_next) - Len(func_code))

IsTestOrPlaceholder(token) == token.tag = "isinstance" \/ IsPlaceholder(token)

\* The children of a union that are compound, in the order they are listed.
IsCompound(hint_child) == IsHintPep(hint_child) /\ ~IsHintIgnorable(hint_child)
HintChildsCompound(hint) == SelectSeq(hint.items, IsCompound)

\* The work items an iteration has enqueued, in queue order.
Enqueued ==
    [i \in 1..(frame'.hints_meta_index_last - frame.hints_meta_index_last) |->
        frame'.hints_meta[frame.hints_meta_index_last + i]]

\* The fragment of a union holds at most one instance-of test, before every
\* placeholder, and one placeholder per enqueued work item in queue order.
UnionFragmentInQueueOrder ==
    IsUnionStep =>
        LET fragment == FragmentOf(frame.func_code, frame'.func_code,
                                   HintMetaPlaceholder(HintCurrMeta))
            tokens == SelectSeq(fragment, IsTestOrPlaceholder)
            tests == SelectSeq(tokens, LAMBDA token : token.tag = "isinstance")
            placeholders == SelectSeq(tokens, IsPlaceholder)
        IN  /\ Len(tests) <= 1
            /\ tokens = tests \o placeholders
            /\ placeholders = [i \in DOMAIN Enqueued |-> HintMetaPlaceholder(Enqueued[i])[1]]

\* The work items a union enqueues are its compound children in the order
\* they are listed.
UnionQueueInListingOrder ==
    IsUnionStep =>
        [i \in DOMAIN Enqueued |-> HintMetaHint(Enqueued[i])]
            = HintChildsCompound(HintMetaHint(HintCurrMeta))

\* C32: in the fragment emitted for a union, the single instance-of test for
\* the plain children comes first, followed by one placeholder per compound
\* child, and the placeholders and their work items are in the order in which
\* the compound children are listed in the union.
C32_UnionDisjunctOrder ==
    [][UnionFragmentInQueueOrder /\ UnionQueueInListingOrder]_vars

\* An iteration that visits a union all of whose children are ignorable.
IsElidedUnionStep ==
    /\ IsUnionStep
    /\ \A i \in DOMAIN HintMetaHint(HintCurrMeta).items :
          IsHintIgnorable(HintMetaHint(HintCurrMeta).items[i])

\* C33: when every child of a union is ignorable, the text substituted for the
\* placeholder of the union is empty (no union prefix, no template text) and
\* no child is enqueued.
C33_ElidedUnion ==
    [][IsElidedUnionStep =>
          /\ FragmentOf(frame.func_code, frame'.func_code,
                        HintMetaPlaceholder(HintCurrMeta)) = <<>>
          /\ Enqueued = <<>>]_vars

(***************************************************************************)
(* Claims about the pith of the work items, checked under SpecCompile.     *)
(***************************************************************************)
\* An iteration that visits a standard sequence and raises nothing.
IsSequenceStep ==
    /\ frame.pc = "loop" /\ frame'.pc = "loop"
    /\ frame'.hints_meta_index_curr = frame.hints_meta_index_curr + 1
    /\ HintMetaHint(HintCurrMeta).tag \in TYPING_ATTRS_SEQUENCE_STANDARD

\* The instance-of tests of the code an iteration has emitted.
FragmentTests ==
    IsinstanceTests(FragmentOf(frame.func_code, frame'.func_code,
                               HintMetaPlaceholder(HintCurrMeta)))

\* Every child a union enqueues carries the pith expression of the union, and
\* the test the union emits is on that pith.
UnionKeepsPith ==
    IsUnionStep =>
        /\ \A i \in DOMAIN Enqueued :
              HintMetaPithExpr(Enqueued[i]) = HintMetaPithExpr(HintCurrMeta)
        /\ \A k \in DOMAIN FragmentTests :
              FragmentTests[k].items[1] = HintMetaPithExpr(HintCurrMeta)

\* The child a standard sequence enqueues carries the expression of a member
\* of the pith of the sequence.
SequenceDerivesPith ==
    IsSequenceStep =>
        \A i \in DOMAIN Enqueued :
            /\ HintMetaPithExpr(Enqueued[i]) =
                   PEP_CODE_CHECK_HINT_SEQUENCE_STANDARD_PITH_CHILD_EXPR(
                       HintMetaPithExpr(HintCurrMeta))
            /\ HintMetaPithExpr(Enqueued[i]) # HintMetaPithExpr(HintCurrMeta)

\* C34: every compound child enqueued by a union carries exactly the pith
\* expression of the union, whereas the child enqueued by a parameterized
\* container carries a member expression derived from the pith of the
\* container; a union never changes the value under test.
C34_UnionKeepsPith ==
    [][UnionKeepsPith /\ SequenceDerivesPith]_vars

\* A sequence has enqueued a union on the expression of its member, and that
\* union has enqueued its compound child on the same expression.
C34_Witness ==
    /\ frame.pc = "loop"
    /\ frame.hint_root = HintList(HintUnion(0, <<TypeInt, HintList(TypeStr)>>))
    /\ frame.hints_meta_index_curr = 2
    /\ frame.hints_meta_index_last = 2
    /\ HintMetaHint(frame.hints_meta[2]) = HintList(TypeStr)
    /\ HintMetaPithExpr(frame.hints_meta[2]) =
           PEP_CODE_CHECK_HINT_SEQUENCE_STANDARD_PITH_CHILD_EXPR(PEP_CODE_PITH_ROOT_EXPR)

\* An iteration that visits a standard sequence whose child is satisfied by
\* every object: typing.Any or object.
IsShallowSequenceStep ==
    /\ IsSequenceStep
    /\ HintMetaHint(HintCurrMeta).items[1] \in {HintAny, TypeObject}

\* C35: for a parameterized container whose single child is universally
\* satisfied, the compiler emits only the shallow instance-of test of the pith
\* against the origin class, enqueues no child work item, takes no
\* placeholder and leaves the sampling-required flag as it is.
C35_ShallowContainer ==
    [][IsShallowSequenceStep =>
          LET fragment == FragmentOf(frame.func_code, frame'.func_code,
                                     HintMetaPlaceholder(HintCurrMeta))
          IN  /\ Len(fragment) = 1
              /\ fragment[1].tag = "isinstance"
              /\ fragment[1].items[1] = HintMetaPithExpr(HintCurrMeta)
              /\ ResolveName(fragment[1].items[2], func_scope') =
                     GetHintTypeOriginOrNone(GetHintPepTypingAttr(HintMetaHint(HintCurrMeta)))
              /\ Enqueued = <<>>
              /\ data' = data]_vars

\* The compilation of List[Any] has returned one instance-of test and left
\* the flag of its BeartypeData object unset.
C35_Witness ==
    \E n \in DOMAIN pep_log :
        /\ pep_log[n].invoked /\ pep_log[n].kind = "return"
        /\ pep_log[n].hint = HintList(HintAny)
        /\ Len(IsinstanceTests(pep_log[n].obj.items)) = 1
        /\ pep_log[n].written = {0}
        /\ \A m \in 1..n : pep_log[m].data = pep_log[n].data => pep_log[m].hint = HintList(HintAny)
        /\ ~data[pep_log[n].data].is_func_wrapper_needs_random_int

(***************************************************************************)
(* Claims about the tuple concurrent compilations share, checked under     *)
(* SpecScopeRace.                                                          *)
(***************************************************************************)
\* C36: for every interleaving of add_func_scope_types() calls on value-equal
\* tuples of two or more classes, once the calls have completed every call
\* has put in its func_scope the one tuple object the beartypistry holds under
\* the key of that content, and the names the calls returned agree.
C36_SharedTupleObject ==
    AllThreadsIdle =>
        \A t1, t2 \in DOMAIN threads :
            \A r1 \in threads[t1].registered, r2 \in threads[t2].registered :
                PyEq(r1.types, r2.types) =>
                    /\ r1.attr = DictGet(bear_typistry, TupleTypesName(r1.types), SENTINEL)
                    /\ r1.attr = r2.attr
                    /\ r1.name = r2.name

(***************************************************************************)
(* Claims about the tuples vouched duplicate-free, checked under SpecScope.*)
(***************************************************************************)
\* The last call was add_func_scope_types() with is_unique true on a tuple of
\* two or more classes, and it returned a name.
IsUniqueTypesCall(last) ==
    /\ last.op = "add_func_scope_types"
    /\ last.arg.tag = "tuple"
    /\ Len(last.arg.items) >= 2
    /\ last.is_unique
    /\ last.kind = "return"

KeepsBindings(dict, dict_next) ==
    \A key \in DOMAIN dict : key \in DOMAIN dict_next /\ dict_next[key] = dict[key]

\* C38: whatever calls are made to the memoized closure, a key bound in
\* params_flat_to_return_value or in params_flat_to_exception stays bound to
\* the same object (no eviction, no overwrite), and no key is bound in both
\* dictionaries.
C38_CacheMonotonic ==
    [][/\ KeepsBindings(params_flat_to_return_value, params_flat_to_return_value')
       /\ KeepsBindings(params_flat_to_exception, params_flat_to_exception')
       /\ \A key \in DOMAIN params_flat_to_return_value' :
             \A other \in DOMAIN params_flat_to_exception' : ~PyEq(key, other)]_vars

\* A value and an exception have been cached and a later call with the
\* arguments of an earlier one was answered from a dictionary.
C38_Witness ==
    /\ Len(cc_log) = 3
    /\ DOMAIN params_flat_to_return_value # {}
    /\ DOMAIN params_flat_to_exception # {}
    /\ cc_log[1].invoked /\ cc_log[2].invoked /\ ~cc_log[3].invoked

\* C39: once the decorated callable has returned None for some arguments, a
\* later call of the memoized closure with equal arguments returns None
\* without calling the decorated callable again: a cached None is told apart
\* from a missing key.
C39_NoneIsMemoized ==
    \A i, j \in DOMAIN cc_log :
        (/\ i < j
         /\ PyEq(cc_log[i].key, cc_log[j].key)
         /\ cc_log[i].invoked
         /\ cc_log[i].kind = "return"
         /\ cc_log[i].obj = PyNone)
            => /\ ~cc_log[j].invoked
               /\ cc_log[j].kind = "return"
               /\ cc_log[j].obj = PyNone

\* The decorated callable has returned None, and two later calls with the
\* same arguments were answered None from the dictionary.
C39_Witness ==
    /\ Len(cc_log) = 3
    /\ cc_log[1].invoked /\ cc_log[1].kind = "return" /\ cc_log[1].obj = PyNone
    /\ cc_log[2].call = cc_log[1].call /\ ~cc_log[2].invoked /\ cc_log[2].obj = PyNone
    /\ cc_log[3].call = cc_log[1].call /\ ~cc_log[3].invoked /\ cc_log[3].obj = PyNone

(***************************************************************************)
(* Claims about the fixed lists of pep_code_check_hint, checked under      *)
(* SpecCompile.                                                            *)
(***************************************************************************)
\* The fixed lists a call has acquired: hints_meta and the metadata of every
\* hint it has put in hints_meta.
Acquired(entry) == {HINTS_META} \cup entry.written

\* C40: whenever pep_code_check_hint exits, by returning code or by raising an
\* exception, every fixed list it acquired (hints_meta and the metadata of
\* each hint) has been released exactly once, and every hint it dequeued has
\* been released and its slot of hints_meta set to None.
C40_BufferRelease ==
    \A n \in DOMAIN pep_log :
        pep_log[n].invoked =>
            /\ Range(pep_log[n].released) = Acquired(pep_log[n])
            /\ Len(pep_log[n].released) = Cardinality(Acquired(pep_log[n]))
            /\ Dequeued(pep_log[n]) \subseteq Range(pep_log[n].released)

====
